---- MODULE Spec2Model ----
(***************************************************************************)
(* A model of gummibaum's expansion mode: the document splitter            *)
(* (ExpandParseTex), the line handlers (ConstHandler, RowHandler), the     *)
(* tabular data model (Column, Collection, CSVReader) and the driver       *)
(* `expand` of cmd/gummibaum, which routes the expanded lines to one       *)
(* merged sink or to one file per Column.                                  *)
(*                                                                         *)
(* A Go string is modelled as a Text: a sequence of tokens, each token an  *)
(* indivisible piece of text.  A line is a Text, a file is a sequence of   *)
(* lines, a Go map is a function whose DOMAIN is the key set.              *)
(***************************************************************************)
EXTENDS Integers, Sequences, FiniteSets, TLC

\* ------------------------------------------------------------------ bounds
\* The longest input document, in lines.
MaxLines == 5
\* The largest number of data rows (Columns) the CSV file holds.
MaxCols == 3
\* How often a client calls ExpandParseTex again on the same input
\* (SpecParse).
MaxCalls == 1

\* --------------------------------------------------------- program literals
BeginMarker == <<"%begin gummibaum repeat">>
EndMarker == <<"%end gummibaum repeat">>
NoColEntry == <<"NO VALUE">>

\* DefaultReplacers, in the order of the list: old, new.
DefaultReplacers ==
  << << <<"&">>, <<"\\", "&">> >>,
     << <<"%">>, <<"\\", "%">> >>,
     << <<"$">>, <<"\\", "$">> >>,
     << <<"#">>, <<"\\", "#">> >>,
     << <<"_">>, <<"\\", "_">> >>,
     << <<"{">>, <<"\\", "{">> >>,
     << <<"}">>, <<"\\", "}">> >>,
     << <<"~">>, <<"\\", "textasciitilde ">> >>,
     << <<"^">>, <<"\\", "textasciicircum ">> >>,
     << <<"\\">>, <<"\\", "textbackslash ">> >> >>

\* ------------------------------------------------------------ text helpers
\* strings.HasPrefix(s, prefix)
HasPrefix(s, prefix) ==
  /\ Len(prefix) <= Len(s)
  /\ SubSeq(s, 1, Len(prefix)) = prefix

\* IntMin(a, b)
IntMin(a, b) == IF a < b THEN a ELSE b

\* The least element of a non-empty set of numbers.
Least(S) == CHOOSE k \in S : \A j \in S : k <= j

\* strings.Replacer.Replace for a replacer built from `pairs` (a sequence of
\* <<old, new>>, every old non-empty): one scan from the left; at each
\* position the first pair (in argument order) whose old matches there is
\* replaced and the scan goes on behind the match; the text a replacement
\* inserts is not scanned again.
RECURSIVE ReplaceFrom(_, _, _)
ReplaceFrom(pairs, s, i) ==
  IF i > Len(s) THEN <<>>
  ELSE LET rest == SubSeq(s, i, Len(s))
           hits == {k \in 1..Len(pairs) : HasPrefix(rest, pairs[k][1])}
       IN IF hits = {}
          THEN <<s[i]>> \o ReplaceFrom(pairs, s, i + 1)
          ELSE LET k == Least(hits)
               IN pairs[k][2] \o ReplaceFrom(pairs, s, i + Len(pairs[k][1]))

Replace(pairs, s) == ReplaceFrom(pairs, s, 1)

\* A LatexEscapeFunc is "nil" or "default" (LatexEscapeFromList(DefaultReplacers)).
LatexEscapeFromList(mapping, s) == Replace(mapping, s)

ApplyEscape(replaceFunc, s) ==
  IF replaceFunc = "nil" THEN s ELSE LatexEscapeFromList(DefaultReplacers, s)

\* The orders in which a range over the map m can visit its keys.
KeyOrders(m) ==
  {o \in [1..Cardinality(DOMAIN m) -> DOMAIN m] :
     \A a, b \in DOMAIN o : a # b => o[a] # o[b]}

\* The empty map (also a nil map).
EmptyMap == [k \in {} |-> <<>>]

\* m[key] = value of a Go map.
MapSet(m, key, value) ==
  [k \in (DOMAIN m) \cup {key} |-> IF k = key THEN value ELSE m[k]]

\* for key, value := range m { res[key] = value }, over the keys not yet
\* visited; the keys of one map are distinct, so the order of the range
\* does not show in the result.
RECURSIVE CopyInto(_, _, _)
CopyInto(res, m, keys) ==
  IF keys = {} THEN res
  ELSE LET key == CHOOSE k \in keys : TRUE
       IN CopyInto(MapSet(res, key, m[key]), m, keys \ {key})

\* MergeStringMaps with the slip of ranging over m2 first, so that m1's
\* value stays on a conflict.
MergeFirstWins(m1, m2) ==
  CopyInto(CopyInto(EmptyMap, m2, DOMAIN m2), m1, DOMAIN m1)

\* MergeStringMaps(m1, m2): a new map, filled from m1 and then from m2.
MergeStringMaps(m1, m2) ==
  CopyInto(CopyInto(EmptyMap, m1, DOMAIN m1), m2, DOMAIN m2)

\* ---------------------------------------------------------------- Column
\* NewColumnMap with the slip of keeping the first value of a header name
\* that occurs twice.
RECURSIVE NewColumnMapFirstWins(_, _, _, _, _)
NewColumnMapFirstWins(head, entries, i, n, m) ==
  IF i > n THEN m
  ELSE NewColumnMapFirstWins(head, entries, i + 1, n,
                             IF head[i] \in DOMAIN m THEN m
                             ELSE MapSet(m, head[i], entries[i]))

\* The loop of NewColumn: for i := 0; i < n; i++ { m[head[i]] = entries[i] }
\* (positions are 1-based here).
RECURSIVE NewColumnMap(_, _, _, _, _)
NewColumnMap(head, entries, i, n, m) ==
  IF i > n THEN m
  ELSE NewColumnMap(head, entries, i + 1, n, MapSet(m, head[i], entries[i]))

NewColumn(head, entries) ==
  LET n == IntMin(Len(entries), Len(head))
  IN [Head |-> head, Entries |-> entries,
      Map |-> NewColumnMap(head, entries, 1, n, EmptyMap)]

\* A nil *Column.
NilColumn == [nil |-> TRUE]

\* Column.GetPos(i), i counted from 0 as in the code.
GetPos(c, i) ==
  IF i < 0 \/ i >= Len(c.Entries) THEN NoColEntry ELSE c.Entries[i + 1]

\* GetKey with the slip of returning the empty string for a missing key.
GetKeyEmpty(c, key) ==
  IF key \in DOMAIN c.Map THEN c.Map[key] ELSE <<>>

\* Column.GetKey(key)
GetKey(c, key) ==
  IF key \in DOMAIN c.Map THEN c.Map[key] ELSE NoColEntry

\* A key of Get and Element (key interface{}): an int, a string, or a value
\* of another type.
IntKey(i) == [kind |-> "int", v |-> i]
StringKey(name) == [kind |-> "string", v |-> name]
OtherKey == [kind |-> "other"]

\* Column.Get(key)
Get(c, key) ==
  IF key.kind = "int" THEN GetPos(c, key.v)
  ELSE IF key.kind = "string" THEN GetKey(c, key.v)
       ELSE NoColEntry

\* Column.At(i): the value and the error.
At(c, i) ==
  IF i < 0 \/ i >= Len(c.Entries)
  THEN [val |-> <<>>, err |-> "ColKeyError"]
  ELSE [val |-> c.Entries[i + 1], err |-> "nil"]

\* Value with the slip of returning the zero string and no error for a key
\* that is not found.
ValueNoError(c, key) ==
  IF key \in DOMAIN c.Map
  THEN [val |-> c.Map[key], err |-> "nil"]
  ELSE [val |-> <<>>, err |-> "nil"]

\* Column.Value(key): the value and the error.
Value(c, key) ==
  IF key \in DOMAIN c.Map
  THEN [val |-> c.Map[key], err |-> "nil"]
  ELSE [val |-> <<>>, err |-> "ColKeyError"]

\* Column.Element(key)
Element(c, key) ==
  IF key.kind = "int" THEN At(c, key.v)
  ELSE IF key.kind = "string" THEN Value(c, key.v)
       ELSE [val |-> <<>>, err |-> "ColKeyError"]

\* ------------------------------------------------------------ Collection
\* A CollectionSource is what its Head() and Entries() return.
\* CSVReader.Head / CSVReader.Entries never fail.
CSVReaderSource(r) ==
  [head |-> r.HeadContent, headErr |-> "nil",
   entries |-> r.ColumnsContent, entriesErr |-> "nil"]

NilCollection == [nil |-> TRUE]

\* The calls NewCollection makes on its source: Head(), and Entries() when
\* Head() did not fail.
NewCollectionCalls(source) ==
  IF source.headErr # "nil" THEN <<"Head">> ELSE <<"Head", "Entries">>

\* NewCollection with the slip of returning, when Entries() fails, a
\* Collection that has the header and no Columns.
NewCollectionPartial(source) ==
  IF source.headErr # "nil" THEN [collection |-> NilCollection, err |-> source.headErr]
  ELSE IF source.entriesErr # "nil"
       THEN [collection |-> [Head |-> source.head, Columns |-> <<>>],
             err |-> source.entriesErr]
       ELSE [collection |->
               [Head |-> source.head,
                Columns |-> [i \in 1..Len(source.entries) |->
                               NewColumn(source.head, source.entries[i])]],
             err |-> "nil"]

\* NewCollection with the slip of building every Column from the row the
\* loop saw last.
NewCollectionLastRow(source) ==
  IF source.headErr # "nil" THEN [collection |-> NilCollection, err |-> source.headErr]
  ELSE IF source.entriesErr # "nil"
       THEN [collection |-> NilCollection, err |-> source.entriesErr]
       ELSE [collection |->
               [Head |-> source.head,
                Columns |-> [i \in 1..Len(source.entries) |->
                               NewColumn(source.head,
                                         source.entries[Len(source.entries)])]],
             err |-> "nil"]

\* NewCollection(source): <<collection, err>>.
NewCollection(source) ==
  IF source.headErr # "nil" THEN [collection |-> NilCollection, err |-> source.headErr]
  ELSE IF source.entriesErr # "nil"
       THEN [collection |-> NilCollection, err |-> source.entriesErr]
       ELSE [collection |->
               [Head |-> source.head,
                Columns |-> [i \in 1..Len(source.entries) |->
                               NewColumn(source.head, source.entries[i])]],
             err |-> "nil"]

\* -------------------------------------------------------------- CSVReader
NilCSVReader == [nil |-> TRUE]

\* csv.Reader.ReadAll() on the reader `file`: the records, or an error.
\* A read that fails gives an error; FieldsPerRecord < 0 takes records of
\* any number of fields, FieldsPerRecord = 0 wants every record to have as
\* many fields as the first, FieldsPerRecord > 0 wants that many.
ReadAll(file, FieldsPerRecord) ==
  IF file.readErr THEN [records |-> <<>>, err |-> "csv read"]
  ELSE LET want == IF FieldsPerRecord # 0 THEN FieldsPerRecord
                   ELSE IF Len(file.records) = 0 THEN 0
                        ELSE Len(file.records[1])
       IN IF /\ FieldsPerRecord >= 0
             /\ \E i \in 1..Len(file.records) : Len(file.records[i]) # want
          THEN [records |-> <<>>, err |-> "csv field count"]
          ELSE [records |-> file.records, err |-> "nil"]

\* NewCSVReader with the slip of leaving FieldsPerRecord at its zero
\* value: a row with another number of fields than the first is an error.
NewCSVReaderSameSize(file, head) ==
  LET all == ReadAll(file, 0)
  IN IF all.err # "nil" THEN [reader |-> NilCSVReader, err |-> all.err]
     ELSE IF head
          THEN IF Len(all.records) = 0
               THEN [reader |-> NilCSVReader, err |-> "csv no head"]
               ELSE [reader |-> [HeadContent |-> all.records[1],
                                 ColumnsContent |-> Tail(all.records)],
                     err |-> "nil"]
          ELSE [reader |-> [HeadContent |-> <<>>, ColumnsContent |-> all.records],
                err |-> "nil"]

\* NewCSVReader(r, sep, head): FieldsPerRecord = -1, ReadAll, and the first
\* record taken as the header when head is set.
NewCSVReader(file, head) ==
  LET all == ReadAll(file, -1)
  IN IF all.err # "nil" THEN [reader |-> NilCSVReader, err |-> all.err]
     ELSE IF head
          THEN IF Len(all.records) = 0
               THEN [reader |-> NilCSVReader, err |-> "csv no head"]
               ELSE [reader |-> [HeadContent |-> all.records[1],
                                 ColumnsContent |-> Tail(all.records)],
                     err |-> "nil"]
          ELSE [reader |-> [HeadContent |-> <<>>, ColumnsContent |-> all.records],
                err |-> "nil"]

\* NewCSVFileReader(file, sep, head): os.Open, then NewCSVReader; the file is
\* closed on return and a close error does not reach the caller.
NewCSVFileReader(file, head) ==
  IF file.openErr THEN [reader |-> NilCSVReader, err |-> "csv open"]
  ELSE NewCSVReader(file, head)

\* openCSVExpand(path): no reader and no error when no path is given.
openCSVExpand(path, file) ==
  IF Len(path) = 0 THEN [reader |-> NilCSVReader, err |-> "nil"]
  ELSE NewCSVFileReader(file, TRUE)

\* ---------------------------------------------------------------- handlers
\* NewConstHandler(mapper, replaceFunc): every value escaped once here; the
\* replacer's pairs are in the order `order` in which the range over the
\* map visits the keys.
NewConstHandler(mapper, replaceFunc, order) ==
  [kind |-> "const",
   replacer |-> [i \in 1..Len(order) |->
                   <<order[i], ApplyEscape(replaceFunc, mapper[order[i]])>>]]

\* ConstHandleLine with the slip of scanning its own output once more.
ConstHandleLineRescans(h, line) == Replace(h.replacer, Replace(h.replacer, line))

\* ConstHandler.HandleLine(line)
ConstHandleLine(h, line) == Replace(h.replacer, line)

\* NewRowHandler(replaceVarMap, replaceFunc)
NewRowHandler(replaceVarMap, replaceFunc) ==
  [kind |-> "row", replaceVarMap |-> replaceVarMap,
   replaceFunc |-> replaceFunc, currentCol |-> NilColumn]

\* A nil *RowHandler.
NilRowHandler == [nil |-> TRUE]

\* RowHandler.WithColumn(c)
WithColumn(h, c) ==
  [kind |-> "row", replaceVarMap |-> h.replaceVarMap,
   replaceFunc |-> h.replaceFunc, currentCol |-> c]

\* RowHandlePanics with the slip of testing the Column before the mapping:
\* a handler without Column panics whatever its mapping.
RowHandlePanicsUnbound(h) == h.currentCol = NilColumn

\* RowHandler.HandleLine dereferences a nil currentCol (a Go panic) exactly
\* when the mapping is not empty and no Column is bound.
RowHandlePanics(h) ==
  /\ Cardinality(DOMAIN h.replaceVarMap) # 0
  /\ h.currentCol = NilColumn

\* RowHandler.HandleLine(line) of a handler that does not panic; `order` is
\* the order in which the range over replaceVarMap visits the keys.
RowHandleLine(h, line, order) ==
  IF Cardinality(DOMAIN h.replaceVarMap) = 0 THEN line
  ELSE Replace([i \in 1..Len(order) |->
                  <<order[i],
                    ApplyEscape(h.replaceFunc,
                                GetKey(h.currentCol, h.replaceVarMap[order[i]]))>>],
               line)

\* ExpandHandler.HandleLine
HandleLine(h, line, order) ==
  IF h.kind = "const" THEN ConstHandleLine(h, line) ELSE RowHandleLine(h, line, order)

\* ApplyExpandHandlers with the slip of returning the line it was given.
ApplyNoHandler(line, handlers, order) == line

\* ApplyFrom with the slip of applying the handlers from the last to the
\* first: the first handler works on the output of the handlers after it.
RECURSIVE ApplyFromBack(_, _, _, _)
ApplyFromBack(s, handlers, i, order) ==
  IF i > Len(handlers) THEN s
  ELSE HandleLine(handlers[i], ApplyFromBack(s, handlers, i + 1, order), order)

\* ApplyExpandHandlers(line, handlers...): each handler on the previous
\* handler's output, in the given order.
RECURSIVE ApplyFrom(_, _, _, _)
ApplyFrom(s, handlers, i, order) ==
  IF i > Len(handlers) THEN s
  ELSE ApplyFrom(HandleLine(handlers[i], s, order), handlers, i + 1, order)

ApplyExpandHandlers(line, handlers, order) == ApplyFrom(line, handlers, 1, order)

\* ---------------------------------------------------------------- inputs
\* All sequences over S of length at most n.
SeqsUpTo(S, n) == UNION {[1..k -> S] : k \in 0..n}

\* strconv of a small number, as fmt.Sprintf("%d") prints it.
Itoa(n) == <<"0", "1", "2", "3", "4", "5", "6", "7", "8", "9">>[n + 1]

\* Line i of an input document of the driver: a marker line, or a text
\* line that holds the constant placeholder X, the row placeholder R and
\* its own line number, so that no two text lines are equal.
DocLine(kind, i) ==
  IF kind = "begin" THEN BeginMarker
  ELSE IF kind = "end" THEN EndMarker
       ELSE <<"X", "R", " line ", Itoa(i)>>

\* The input documents of the driver: every arrangement of marker lines
\* and text lines, of at most n lines.
Docs(n) ==
  UNION {{[i \in 1..k |-> DocLine(f[i], i)] : f \in [1..k -> {"begin", "end", "text"}]} :
           k \in 0..n}

\* The lines the splitter is tried on: the marker lines, a marker followed
\* by more text, a marker that is not at the start of its line, and a
\* plain line.
ParseLines ==
  {BeginMarker, EndMarker, <<" ">> \o BeginMarker, EndMarker \o <<" x">>, <<"a">>}

\* --const pairs and the Const mapping of a config file.
ConstFlags == {[k \in {<<"X">>} |-> <<"c", "&">>]}
JsonConsts == {EmptyMap}
\* --row pairs and the Rows mapping of a config file.
RowFlags == {EmptyMap, [k \in {<<"R">>} |-> <<"f">>]}
JsonRows == {EmptyMap}

\* The records of the CSV file with n data rows: the header row f and one
\* row per Column, row i holding the single value v<i>.
CsvRecords(n) == << << <<"f">> >> >> \o [i \in 1..n |-> << <<"v", Itoa(i)>> >>]

\* A file that cannot be opened.
NoFile == [openErr |-> TRUE, readErr |-> FALSE, records |-> <<>>]

\* What the CSV file can be: not openable, not parsable, empty, or a
\* header with 0..MaxCols rows.
CsvFiles ==
  {NoFile,
   [openErr |-> FALSE, readErr |-> TRUE, records |-> <<>>],
   [openErr |-> FALSE, readErr |-> FALSE, records |-> <<>>]}
  \cup {[openErr |-> FALSE, readErr |-> FALSE, records |-> CsvRecords(n)] : n \in 0..MaxCols}

\* ------------------------------------------------------------------ state
VARIABLES
  pc,            \* where the run is
  err,           \* the value the run panicked with, "nil" otherwise
  constHandler,  \* expand: constHandler
  rowHandler,    \* expand: rowHandler (NilRowHandler when the row map is empty)
  singleFile,    \* flag -single-file
  outFilePath,   \* flag -out
  dataSource,    \* flag -csv
  input,         \* the lines of the input file
  csvFile,       \* the CSV file at the -csv path
  inOpen,        \* the input file f is open
  pos,           \* the lines the scanner has delivered so far
  state,         \* ExpandParseTex: state
  head,          \* ExpandParseTex: head; after the split, expand: head
  body,          \* ExpandParseTex: body
  foot,          \* ExpandParseTex: foot
  ret,           \* what ExpandParseTex returned
  prevRet,       \* what the call before returned (SpecParse)
  calls,         \* repeated calls of ExpandParseTex so far (SpecParse)
  out,           \* the writer in use: a path, <<>> for os.Stdout
  csv,           \* expand: csv
  collection,    \* expand: collection
  col,           \* the Column the loop is at (the code's i, from 0)
  newRowHandler, \* expand: newRowHandler
  ln,            \* lines of the current section already written
  stdout,        \* the lines written to os.Stdout
  fs,            \* the output files: path -> lines
  open,          \* the output files that are open
  log,           \* the paths log.Printf reported as not creatable
  built,         \* library client: the arguments the first handler was built with
  heap,          \* library client: the handlers allocated, by address
  handles,       \* library client: what each WithColumn call was given and returned
  call,          \* library client: the last HandleLine call and its outcome
  column,        \* library client: the Column under test
  got,           \* library client: the last accessor call and its results
  source,        \* library client: the CollectionSource
  coll,          \* library client: what NewCollection returned
  srcCalls       \* library client: the calls the source has received

flagVars == <<constHandler, rowHandler, singleFile, outFilePath, dataSource>>
scanVars == <<pos, state, head, body, foot>>
loopVars == <<out, csv, collection, col, newRowHandler, ln>>
sinkVars == <<stdout, fs, open, log>>
handlerVars == <<built, heap, handles, call>>
columnVars == <<column, got>>
collectionVars == <<source, coll, srcCalls>>
libVars == <<handlerVars, columnVars, collectionVars>>
progVars == <<pc, err, flagVars, input, csvFile, inOpen, scanVars, ret, prevRet, calls,
             loopVars, sinkVars>>
vars == <<progVars, libVars>>

NoRet == [nil |-> TRUE]

\* ----------------------------------------------------------- the splitter
\* ScanCase with the slip of keeping the begin-marker line as the first body
\* line instead of discarding it.
ScanCaseKeepsMarker(s, line) ==
  IF s.state = "inHead"
  THEN IF HasPrefix(line, BeginMarker)
       THEN [s EXCEPT !.state = "inBody", !.body = Append(@, line)]
       ELSE [s EXCEPT !.head = Append(@, line)]
  ELSE IF s.state = "inBody"
       THEN IF HasPrefix(line, EndMarker)
            THEN [s EXCEPT !.state = "inFoot"]
            ELSE [s EXCEPT !.body = Append(@, line)]
       ELSE [s EXCEPT !.foot = Append(@, line)]

\* ScanCase with the slip of recognising the begin marker again in the
\* foot, as if a second repeat region opened there.
ScanCaseReopens(s, line) ==
  IF s.state = "inHead"
  THEN IF HasPrefix(line, BeginMarker)
       THEN [s EXCEPT !.state = "inBody"]
       ELSE [s EXCEPT !.head = Append(@, line)]
  ELSE IF s.state = "inBody"
       THEN IF HasPrefix(line, EndMarker)
            THEN [s EXCEPT !.state = "inFoot"]
            ELSE [s EXCEPT !.body = Append(@, line)]
       ELSE IF HasPrefix(line, BeginMarker)
            THEN [s EXCEPT !.state = "inBody"]
            ELSE [s EXCEPT !.foot = Append(@, line)]

\* ExpandParseTex, the body of the scan loop: the switch on state for one
\* line.  s holds state, head, body and foot.
ScanCase(s, line) ==
  IF s.state = "inHead"
  THEN IF HasPrefix(line, BeginMarker)
       THEN [s EXCEPT !.state = "inBody"]
       ELSE [s EXCEPT !.head = Append(@, line)]
  ELSE IF s.state = "inBody"
       THEN IF HasPrefix(line, EndMarker)
            THEN [s EXCEPT !.state = "inFoot"]
            ELSE [s EXCEPT !.body = Append(@, line)]
       ELSE [s EXCEPT !.foot = Append(@, line)]

\* ParseResult with the slip of returning the sections collected so far
\* together with the missing-marker error.
ParseResultPartial(s, scanFailed) ==
  IF scanFailed
  THEN [head |-> <<>>, body |-> <<>>, foot |-> <<>>, err |-> "scan"]
  ELSE IF s.state # "inFoot"
       THEN [head |-> s.head, body |-> s.body, foot |-> s.foot, err |-> "syntax"]
       ELSE [head |-> s.head, body |-> s.body, foot |-> s.foot, err |-> "nil"]

\* ExpandParseTex, after the loop: the scanner's error, the missing marker,
\* or the three sections.  A nil slice is the empty sequence.
ParseResult(s, scanFailed) ==
  IF scanFailed
  THEN [head |-> <<>>, body |-> <<>>, foot |-> <<>>, err |-> "scan"]
  ELSE IF s.state # "inFoot"
       THEN [head |-> <<>>, body |-> <<>>, foot |-> <<>>, err |-> "syntax"]
       ELSE [head |-> s.head, body |-> s.body, foot |-> s.foot, err |-> "nil"]

\* ExpandParseTex on entry: state := inHeadState, the sections nil.
ScanStart ==
  /\ pos' = 0
  /\ state' = "inHead"
  /\ head' = <<>>
  /\ body' = <<>>
  /\ foot' = <<>>

\* scanner.Scan() delivers the next line and the switch handles it.
ScanLine ==
  /\ pc = "split"
  /\ pos < Len(input)
  /\ LET s == ScanCase([state |-> state, head |-> head, body |-> body, foot |-> foot],
                       input[pos + 1])
     IN /\ state' = s.state
        /\ head' = s.head
        /\ body' = s.body
        /\ foot' = s.foot
  /\ pos' = pos + 1
  /\ UNCHANGED <<pc, err, flagVars, libVars, input, csvFile, inOpen, ret, prevRet, calls, loopVars, sinkVars>>

\* scanner.Scan() returns false, at the end of the input or on an error of
\* the reader or the scanner (at any line), and ExpandParseTex returns.
ParseReturn ==
  /\ pc = "split"
  /\ \E scanFailed \in BOOLEAN :
       /\ ~scanFailed => pos = Len(input)
       /\ ret' = ParseResult([state |-> state, head |-> head, body |-> body, foot |-> foot],
                             scanFailed)
  /\ pc' = "returned"
  /\ UNCHANGED <<err, flagVars, libVars, input, csvFile, inOpen, scanVars, prevRet, calls, loopVars, sinkVars>>

\* A client calls ExpandParseTex once more, on a fresh reader of the same
\* input.
CallAgain ==
  /\ pc = "returned"
  /\ calls < MaxCalls
  /\ calls' = calls + 1
  /\ prevRet' = ret
  /\ ScanStart
  /\ pc' = "split"
  /\ UNCHANGED <<err, flagVars, libVars, input, csvFile, inOpen, ret, loopVars, sinkVars>>

\* ------------------------------------------------------------- the driver
\* filepath.Join(dir, name): the name alone when dir is empty.
Join(dir, name) == IF Len(dir) = 0 THEN name ELSE dir \o <<"/">> \o name

\* OutFileName with the slip of numbering the files by the index i, from 0.
OutFileNameFromZero(dir, i) == Join(dir, <<"out", Itoa(i), ".tex">>)

\* filepath.Join(*outFilePath, fmt.Sprintf("out%d.tex", i+1)) for the
\* Column at index i (from 0).
OutFileName(dir, i) == Join(dir, <<"out", Itoa(i + 1), ".tex">>)

\* os.Create(path) succeeds: the file exists, is empty and is open.
Create(path) ==
  /\ fs' = MapSet(fs, path, <<>>)
  /\ open' = open \cup {path}

\* fmt.Fprintln(w, text) succeeds: one more line in the sink behind w.  (A
\* failed write adds no line.)
Fprintln(w, text) ==
  IF Len(w) = 0
  THEN /\ stdout' = Append(stdout, text)
       /\ fs' = fs
  ELSE /\ fs' = [fs EXCEPT ![w] = Append(@, text)]
       /\ stdout' = stdout

\* WriteExpandHandlers(w, line, handlers...) succeeds.  The range over the
\* row map visits its keys in some order.
WriteExpandHandlers(w, line, handlers) ==
  \E order \in (IF rowHandler = NilRowHandler THEN {<<>>}
                ELSE KeyOrders(rowHandler.replaceVarMap)) :
    Fprintln(w, ApplyExpandHandlers(line, handlers, order))

\* panic(e): the run ends with e; the deferred f.Close() runs.
Panic(e) ==
  /\ pc' = "panic"
  /\ err' = e
  /\ inOpen' = FALSE

\* BodyHandlers with the slip of writing the body like head and foot,
\* through the constHandler alone.
BodyHandlersConstOnly == <<constHandler>>

\* The handlers a body line goes through.
BodyHandlers == <<constHandler, newRowHandler>>

\* BranchAfterOpen with the slip of splitting the document also when there
\* is no row handler.
BranchAlwaysSplit == "split"

\* Line 114: the branch expand takes, the plain one when there is no row
\* handler, else the one that splits the document.
BranchAfterOpen == IF rowHandler = NilRowHandler THEN "plain" ELSE "split"

\* expand, lines 106-114: the input file is opened and the branch taken.
OpenInput ==
  /\ pc = "open"
  /\ \E fileFlag \in {<<>>, <<"in.tex">>}, openOk \in BOOLEAN :
       IF Len(fileFlag) = 0
       THEN /\ pc' = "panic"
            /\ err' = "No file provided"
            /\ UNCHANGED <<inOpen, scanVars>>
       ELSE IF ~openOk
            THEN /\ pc' = "panic"
                 /\ err' = "openErr"
                 /\ UNCHANGED <<inOpen, scanVars>>
            ELSE /\ inOpen' = TRUE
                 /\ ScanStart
                 /\ pc' = BranchAfterOpen
                 /\ err' = err
  /\ UNCHANGED <<flagVars, libVars, input, csvFile, ret, prevRet, calls, loopVars, sinkVars>>

\* getWriter(*outFilePath), lines 116-120 and 140-144: os.Stdout, or the
\* file created at the path; the deferred done() closes it.
GetWriter ==
  /\ pc \in {"plain", "merge"}
  /\ \E createOk \in BOOLEAN :
       IF Len(outFilePath) = 0
       THEN /\ out' = <<>>
            /\ pc' = IF pc = "plain" THEN "stream" ELSE "m_csv"
            /\ UNCHANGED <<err, inOpen, fs, open>>
       ELSE IF createOk
            THEN /\ Create(outFilePath)
                 /\ out' = outFilePath
                 /\ pc' = IF pc = "plain" THEN "stream" ELSE "m_csv"
                 /\ UNCHANGED <<err, inOpen>>
            ELSE /\ Panic("outErr")
                 /\ UNCHANGED <<out, fs, open>>
  /\ UNCHANGED <<flagVars, libVars, input, csvFile, scanVars, ret, prevRet, calls,
                 csv, collection, col, newRowHandler, ln, stdout, log>>

\* Lines 121-131, no row handler: one turn of the loop that writes every
\* line of the file through the constHandler, or its end.
StreamLine ==
  /\ pc = "stream"
  /\ \E scanOk, writeOk \in BOOLEAN :
       IF scanOk /\ pos < Len(input)
       THEN IF writeOk
            THEN /\ WriteExpandHandlers(out, input[pos + 1], <<constHandler>>)
                 /\ pos' = pos + 1
                 /\ UNCHANGED <<pc, err, inOpen, open>>
            ELSE /\ Panic("writeErr")
                 /\ open' = {}
                 /\ UNCHANGED <<pos, stdout, fs>>
       ELSE IF scanOk
            THEN /\ pc' = "done"
                 /\ inOpen' = FALSE
                 /\ open' = {}
                 /\ UNCHANGED <<err, pos, stdout, fs>>
            ELSE /\ Panic("scannErr")
                 /\ open' = {}
                 /\ UNCHANGED <<pos, stdout, fs>>
  /\ UNCHANGED <<flagVars, libVars, input, csvFile, state, head, body, foot, ret, prevRet, calls, loopVars, log>>

\* Lines 134-138: a failed split panics; else the run takes the merge or
\* the fan-out branch.
CheckSplit ==
  /\ pc = "returned"
  /\ IF ret.err # "nil"
     THEN /\ Panic(ret.err)
          /\ UNCHANGED <<head, body, foot>>
     ELSE /\ head' = ret.head
          /\ body' = ret.body
          /\ foot' = ret.foot
          /\ pc' = IF singleFile THEN "merge" ELSE "fanout"
          /\ UNCHANGED <<err, inOpen>>
  /\ UNCHANGED <<flagVars, libVars, input, csvFile, pos, state, ret, prevRet, calls, loopVars, sinkVars>>

\* Lines 146-149: the CSV file is read, after the writer was made.
MergeOpenCSV ==
  /\ pc = "m_csv"
  /\ LET r == openCSVExpand(dataSource, csvFile)
     IN IF r.err # "nil"
          THEN /\ Panic(r.err)
               /\ open' = {}
               /\ UNCHANGED <<csv, ln>>
          ELSE /\ csv' = r.reader
               /\ ln' = 0
               /\ pc' = "m_head"
               /\ UNCHANGED <<err, inOpen, open>>
  /\ UNCHANGED <<flagVars, libVars, input, csvFile, scanVars, ret, prevRet, calls,
                 out, collection, col, newRowHandler, stdout, fs, log>>

\* MergeHead with the slip of writing the body once, through the
\* constHandler, when there is no CSV reader.
MergeHeadBodyOnce ==
  /\ pc = "m_head"
  /\ \E writeOk \in BOOLEAN :
       IF ln < Len(head)
       THEN IF writeOk
            THEN /\ WriteExpandHandlers(out, head[ln + 1], <<constHandler>>)
                 /\ ln' = ln + 1
                 /\ UNCHANGED <<pc, err, inOpen, open, collection, col>>
            ELSE /\ Panic("writeErr")
                 /\ open' = {}
                 /\ UNCHANGED <<ln, stdout, fs, collection, col>>
       ELSE IF csv = NilCSVReader
            THEN /\ pc' = "m_foot"
                 /\ ln' = 0
                 /\ LET lines == [i \in 1..Len(body) |->
                                    ConstHandleLine(constHandler, body[i])]
                    IN IF Len(out) = 0
                       THEN stdout' = stdout \o lines /\ fs' = fs
                       ELSE fs' = [fs EXCEPT ![out] = @ \o lines] /\ stdout' = stdout
                 /\ UNCHANGED <<err, inOpen, open, collection, col>>
            ELSE LET c == NewCollection(CSVReaderSource(csv))
                 IN IF c.err # "nil"
                    THEN /\ Panic(c.err)
                         /\ open' = {}
                         /\ UNCHANGED <<ln, stdout, fs, collection, col>>
                    ELSE /\ collection' = c.collection
                         /\ col' = 0
                         /\ pc' = "m_col"
                         /\ UNCHANGED <<err, inOpen, open, ln, stdout, fs>>
  /\ UNCHANGED <<flagVars, libVars, input, csvFile, scanVars, ret, prevRet, calls,
                 out, csv, newRowHandler, log>>

\* Lines 150-162: one head line through the constHandler; after the last,
\* the Collection is built when there is a CSV reader.
MergeHead ==
  /\ pc = "m_head"
  /\ \E writeOk \in BOOLEAN :
       IF ln < Len(head)
       THEN IF writeOk
            THEN /\ WriteExpandHandlers(out, head[ln + 1], <<constHandler>>)
                 /\ ln' = ln + 1
                 /\ UNCHANGED <<pc, err, inOpen, open, collection, col>>
            ELSE /\ Panic("writeErr")
                 /\ open' = {}
                 /\ UNCHANGED <<ln, stdout, fs, collection, col>>
       ELSE IF csv = NilCSVReader
            THEN /\ pc' = "m_foot"
                 /\ ln' = 0
                 /\ UNCHANGED <<err, inOpen, open, stdout, fs, collection, col>>
            ELSE LET c == NewCollection(CSVReaderSource(csv))
                 IN IF c.err # "nil"
                    THEN /\ Panic(c.err)
                         /\ open' = {}
                         /\ UNCHANGED <<ln, stdout, fs, collection, col>>
                    ELSE /\ collection' = c.collection
                         /\ col' = 0
                         /\ pc' = "m_col"
                         /\ UNCHANGED <<err, inOpen, open, ln, stdout, fs>>
  /\ UNCHANGED <<flagVars, libVars, input, csvFile, scanVars, ret, prevRet, calls,
                 out, csv, newRowHandler, log>>

\* Lines 163-165: the next Column of the range, bound to a new row handler;
\* after the last Column the foot follows.
MergeColumn ==
  /\ pc = "m_col"
  /\ IF col < Len(collection.Columns)
     THEN /\ newRowHandler' = WithColumn(rowHandler, collection.Columns[col + 1])
          /\ ln' = 0
          /\ pc' = "m_body"
     ELSE /\ pc' = "m_foot"
          /\ ln' = 0
          /\ UNCHANGED newRowHandler
  /\ UNCHANGED <<err, flagVars, libVars, input, csvFile, inOpen, scanVars, ret, prevRet, calls,
                 out, csv, collection, col, sinkVars>>

\* Lines 167-173: one body line through the constHandler and the bound row
\* handler; after the last, the range goes to the next Column.
MergeBody ==
  /\ pc = "m_body"
  /\ \E writeOk \in BOOLEAN :
       IF ln < Len(body)
       THEN IF writeOk
            THEN /\ WriteExpandHandlers(out, body[ln + 1], BodyHandlers)
                 /\ ln' = ln + 1
                 /\ UNCHANGED <<pc, err, inOpen, open, col>>
            ELSE /\ Panic("writeErr")
                 /\ open' = {}
                 /\ UNCHANGED <<ln, stdout, fs, col>>
       ELSE /\ col' = col + 1
            /\ pc' = "m_col"
            /\ UNCHANGED <<err, inOpen, open, ln, stdout, fs>>
  /\ UNCHANGED <<flagVars, libVars, input, csvFile, scanVars, ret, prevRet, calls,
                 out, csv, collection, newRowHandler, log>>

\* Lines 176-181: one foot line through the constHandler; after the last,
\* expand returns and the deferred calls close the sink and the input.
MergeFoot ==
  /\ pc = "m_foot"
  /\ \E writeOk \in BOOLEAN :
       IF ln < Len(foot)
       THEN IF writeOk
            THEN /\ WriteExpandHandlers(out, foot[ln + 1], <<constHandler>>)
                 /\ ln' = ln + 1
                 /\ UNCHANGED <<pc, err, inOpen, open>>
            ELSE /\ Panic("writeErr")
                 /\ open' = {}
                 /\ UNCHANGED <<ln, stdout, fs>>
       ELSE /\ pc' = "done"
            /\ inOpen' = FALSE
            /\ open' = {}
            /\ UNCHANGED <<err, ln, stdout, fs>>
  /\ UNCHANGED <<flagVars, libVars, input, csvFile, scanVars, ret, prevRet, calls,
                 out, csv, collection, col, newRowHandler, log>>

\* FanOpenCSV with the slip of treating a missing data source as an error.
FanOpenCSVNeedsData ==
  /\ pc = "fanout"
  /\ LET r == openCSVExpand(dataSource, csvFile)
     IN IF r.err # "nil"
          THEN /\ Panic(r.err)
               /\ UNCHANGED <<csv, collection, col>>
          ELSE IF r.reader = NilCSVReader
               THEN /\ Panic("no data source")
                    /\ csv' = r.reader
                    /\ UNCHANGED <<collection, col>>
               ELSE LET c == NewCollection(CSVReaderSource(r.reader))
                    IN IF c.err # "nil"
                       THEN /\ Panic(c.err)
                            /\ csv' = r.reader
                            /\ UNCHANGED <<collection, col>>
                       ELSE /\ csv' = r.reader
                            /\ collection' = c.collection
                            /\ col' = 0
                            /\ pc' = "f_col"
                            /\ UNCHANGED <<err, inOpen>>
  /\ UNCHANGED <<flagVars, libVars, input, csvFile, scanVars, ret, prevRet, calls,
                 out, newRowHandler, ln, sinkVars>>

\* Lines 184-195: the CSV file is read; without a data source expand
\* returns; else the Collection is built.
FanOpenCSV ==
  /\ pc = "fanout"
  /\ LET r == openCSVExpand(dataSource, csvFile)
     IN IF r.err # "nil"
          THEN /\ Panic(r.err)
               /\ UNCHANGED <<csv, collection, col>>
          ELSE IF r.reader = NilCSVReader
               THEN /\ pc' = "done"
                    /\ inOpen' = FALSE
                    /\ csv' = r.reader
                    /\ UNCHANGED <<err, collection, col>>
               ELSE LET c == NewCollection(CSVReaderSource(r.reader))
                    IN IF c.err # "nil"
                       THEN /\ Panic(c.err)
                            /\ csv' = r.reader
                            /\ UNCHANGED <<collection, col>>
                       ELSE /\ csv' = r.reader
                            /\ collection' = c.collection
                            /\ col' = 0
                            /\ pc' = "f_col"
                            /\ UNCHANGED <<err, inOpen>>
  /\ UNCHANGED <<flagVars, libVars, input, csvFile, scanVars, ret, prevRet, calls,
                 out, newRowHandler, ln, sinkVars>>

\* CreateFailed with the slip of leaving the loop (break for continue).
CreateFailedBreaks(fPath) ==
  /\ log' = Append(log, fPath)
  /\ col' = Len(collection.Columns)
  /\ UNCHANGED <<pc, err, inOpen, out, ln, fs, open>>

\* What the fan-out loop does when os.Create fails for the Column at index
\* col: the path is logged and the loop continues with the next Column.
CreateFailed(fPath) ==
  /\ log' = Append(log, fPath)
  /\ col' = col + 1
  /\ UNCHANGED <<pc, err, inOpen, out, ln, fs, open>>

\* Lines 196-203: the range reaches the next Column and creates its file;
\* after the last Column expand returns.
FanColumn ==
  /\ pc = "f_col"
  /\ \E createOk \in BOOLEAN :
       IF col < Len(collection.Columns)
       THEN LET fPath == OutFileName(outFilePath, col)
            IN IF createOk
               THEN /\ Create(fPath)
                    /\ out' = fPath
                    /\ ln' = 0
                    /\ pc' = "f_head"
                    /\ UNCHANGED <<err, inOpen, col, log>>
               ELSE CreateFailed(fPath)
       ELSE /\ pc' = "done"
            /\ inOpen' = FALSE
            /\ UNCHANGED <<err, out, col, ln, fs, open, log>>
  /\ UNCHANGED <<flagVars, libVars, input, csvFile, scanVars, ret, prevRet, calls,
                 csv, collection, newRowHandler, stdout>>

\* WriteFailed with the slip of treating a failed write like a failed
\* create: the file is closed and the loop goes on with the next Column.
WriteFailedContinues ==
  /\ open' = open \ {out}
  /\ col' = col + 1
  /\ pc' = "f_col"
  /\ UNCHANGED <<err, inOpen, ln, stdout, fs, newRowHandler>>

\* WriteFailed with the slip of panicking without closing the file.
WriteFailedLeavesOpen ==
  /\ open' = open
  /\ Panic("writeErr")
  /\ UNCHANGED <<col, ln, stdout, fs, newRowHandler>>

\* What the fan-out loop does when a write to the open file fails:
\* outFile.Close(), then panic(writeErr).
WriteFailed ==
  /\ open' = open \ {out}
  /\ Panic("writeErr")
  /\ UNCHANGED <<col, ln, stdout, fs, newRowHandler>>

\* Lines 207-217: one head line to the Column's file; after the last, the
\* row handler is bound to the Column.
FanHead ==
  /\ pc = "f_head"
  /\ \E writeOk \in BOOLEAN :
       IF ln < Len(head)
       THEN IF writeOk
            THEN /\ WriteExpandHandlers(out, head[ln + 1], <<constHandler>>)
                 /\ ln' = ln + 1
                 /\ UNCHANGED <<pc, err, inOpen, open, col, newRowHandler>>
            ELSE WriteFailed
       ELSE /\ newRowHandler' = WithColumn(rowHandler, collection.Columns[col + 1])
            /\ ln' = 0
            /\ pc' = "f_body"
            /\ UNCHANGED <<err, inOpen, open, col, stdout, fs>>
  /\ UNCHANGED <<flagVars, libVars, input, csvFile, scanVars, ret, prevRet, calls,
                 out, csv, collection, log>>

\* Lines 218-224: one body line to the Column's file, through the
\* constHandler and the row handler bound to this Column.
FanBody ==
  /\ pc = "f_body"
  /\ \E writeOk \in BOOLEAN :
       IF ln < Len(body)
       THEN IF writeOk
            THEN /\ WriteExpandHandlers(out, body[ln + 1], BodyHandlers)
                 /\ ln' = ln + 1
                 /\ UNCHANGED <<pc, err, inOpen, open, col, newRowHandler>>
            ELSE WriteFailed
       ELSE /\ ln' = 0
            /\ pc' = "f_foot"
            /\ UNCHANGED <<err, inOpen, open, col, stdout, fs, newRowHandler>>
  /\ UNCHANGED <<flagVars, libVars, input, csvFile, scanVars, ret, prevRet, calls,
                 out, csv, collection, log>>

\* Lines 226-233: one foot line to the Column's file; after the last,
\* outFile.Close() and the range goes on.
FanFoot ==
  /\ pc = "f_foot"
  /\ \E writeOk \in BOOLEAN :
       IF ln < Len(foot)
       THEN IF writeOk
            THEN /\ WriteExpandHandlers(out, foot[ln + 1], <<constHandler>>)
                 /\ ln' = ln + 1
                 /\ UNCHANGED <<pc, err, inOpen, open, col, newRowHandler>>
            ELSE WriteFailed
       ELSE /\ open' = open \ {out}
            /\ col' = col + 1
            /\ pc' = "f_col"
            /\ UNCHANGED <<err, inOpen, ln, stdout, fs, newRowHandler>>
  /\ UNCHANGED <<flagVars, libVars, input, csvFile, scanVars, ret, prevRet, calls,
                 out, csv, collection, log>>

\* ---------------------------------------------------------- specifications
\* What no run has touched yet.
Untouched ==
  /\ err = "nil"
  /\ inOpen = FALSE
  /\ pos = 0
  /\ state = "inHead"
  /\ head = <<>>
  /\ body = <<>>
  /\ foot = <<>>
  /\ ret = NoRet
  /\ prevRet = NoRet
  /\ calls = 0
  /\ out = <<>>
  /\ csv = NilCSVReader
  /\ collection = NilCollection
  /\ col = 0
  /\ newRowHandler = NilRowHandler
  /\ ln = 0
  /\ stdout = <<>>
  /\ fs = EmptyMap
  /\ open = {}
  /\ log = <<>>

\* No library client is at work.
NoCall == [nil |-> TRUE]
LibIdle ==
  /\ built = NoCall
  /\ heap = <<>>
  /\ handles = <<>>
  /\ call = NoCall
  /\ column = NilColumn
  /\ got = NoCall
  /\ source = NoCall
  /\ coll = NoCall
  /\ srcCalls = <<>>

\* expand, lines 65-105: the flags are parsed, the config and the command
\* line pairs merged and the handlers built; no file is open yet.  The
\* input file and the CSV file hold what they hold.
Init ==
  /\ pc = "open"
  /\ input \in Docs(MaxLines)
  /\ \E noEscape \in BOOLEAN, jsonConst \in JsonConsts, constFlag \in ConstFlags,
        jsonRows \in JsonRows, rowFlag \in RowFlags :
       LET constMap == MergeStringMaps(jsonConst, constFlag)
           rowMap == MergeStringMaps(jsonRows, rowFlag)
           replacer == IF noEscape THEN "nil" ELSE "default"
       IN /\ \E order \in KeyOrders(constMap) :
               constHandler = NewConstHandler(constMap, replacer, order)
          /\ rowHandler = IF Cardinality(DOMAIN rowMap) > 0
                          THEN NewRowHandler(rowMap, replacer)
                          ELSE NilRowHandler
  /\ singleFile \in BOOLEAN
  /\ outFilePath \in {<<>>, <<"out">>}
  /\ \/ /\ dataSource = <<>>
        /\ csvFile = NoFile
     \/ /\ dataSource = <<"data.csv">>
        /\ csvFile \in CsvFiles
  /\ Untouched
  /\ LibIdle

Next ==
  \/ OpenInput
  \/ GetWriter
  \/ StreamLine
  \/ ScanLine
  \/ ParseReturn
  \/ CheckSplit
  \/ MergeOpenCSV
  \/ MergeHead
  \/ MergeColumn
  \/ MergeBody
  \/ MergeFoot
  \/ FanOpenCSV
  \/ FanColumn
  \/ FanHead
  \/ FanBody
  \/ FanFoot

Spec == Init /\ [][Next]_vars

\* ExpandParseTex as a library function, called on every document of at
\* most MaxLines lines, and called again MaxCalls times.
InitParse ==
  /\ pc = "split"
  /\ input \in SeqsUpTo(ParseLines, MaxLines)
  /\ constHandler = NewConstHandler(EmptyMap, "nil", <<>>)
  /\ rowHandler = NilRowHandler
  /\ singleFile = TRUE
  /\ outFilePath = <<>>
  /\ dataSource = <<>>
  /\ csvFile = NoFile
  /\ Untouched
  /\ LibIdle

NextParse ==
  \/ ScanLine
  \/ ParseReturn
  \/ CallAgain

SpecParse == InitParse /\ [][NextParse]_vars

\* --------------------------------------------- clients of the handlers
\* How many handlers a client binds with WithColumn.
MaxBinds == 2

\* The program being idle while a library client is at work.
ProgIdle ==
  /\ pc = "lib"
  /\ input = <<>>
  /\ constHandler = NewConstHandler(EmptyMap, "nil", <<>>)
  /\ rowHandler = NilRowHandler
  /\ singleFile = TRUE
  /\ outFilePath = <<>>
  /\ dataSource = <<>>
  /\ csvFile = NoFile
  /\ Untouched

\* The placeholder -> value mappings a ConstHandler is built from: none,
\* the single placeholder X, two placeholders whose values hold a
\* placeholder and a character to escape, a placeholder of two characters
\* that overlaps itself, and two placeholders one of which starts the
\* other.
ConstMaps ==
  {EmptyMap,
   [k \in {<<"X">>} |-> <<"foo">>],
   [k \in {<<"X">>, <<"Y">>} |-> IF k = <<"X">> THEN <<"Y">> ELSE <<"X", "&">>],
   [k \in {<<"X", "X">>} |-> <<"X">>],
   [k \in {<<"X">>, <<"X", "Y">>} |-> IF k = <<"X">> THEN <<"1">> ELSE <<"2">>]}

\* The placeholder -> row-field-name mappings a RowHandler is built from:
\* none, R for the field f, and R and Q for the fields f and g.
RowMaps ==
  {EmptyMap,
   [k \in {<<"R">>} |-> <<"f">>],
   [k \in {<<"R">>, <<"Q">>} |-> IF k = <<"R">> THEN <<"f">> ELSE <<"g">>]}

\* The lines the handlers are called on.
HandlerLines ==
  {<<"X", "-", "X">>, <<"X", "X", "X">>, <<"Y", "X", "Y">>, <<"R", "Q", "R">>, <<"a", "&">>}

\* The Columns a RowHandler is bound to: with the fields f and g, with f
\* alone (its value to be escaped), and without fields.
BindColumns ==
  {NewColumn(<< <<"f">>, <<"g">> >>, << <<"v", "1">>, <<"w">> >>),
   NewColumn(<< <<"f">> >>, << <<"v", "&">> >>),
   NewColumn(<<>>, <<>>)}

\* WithColumn with the slip of binding the receiver itself and returning
\* it, instead of a new handler.
WithColumnInPlace(hp, a, c) ==
  [heap |-> [hp EXCEPT ![a].currentCol = c], ret |-> a]

\* h.WithColumn(c) for the handler at address a of the heap hp:
\* &RowHandler{...} allocates a new handler; the receiver is only read.
AllocWithColumn(hp, a, c) ==
  [heap |-> Append(hp, WithColumn(hp[a], c)), ret |-> Len(hp) + 1]

\* A client builds one handler: a ConstHandler from a mapping, or a
\* RowHandler template, bound to no Column.
InitHandlers ==
  /\ ProgIdle
  /\ \E replaceFunc \in {"nil", "default"} :
       \/ \E mapper \in ConstMaps : \E order \in KeyOrders(mapper) :
            /\ built = [kind |-> "const", mapper |-> mapper, replaceFunc |-> replaceFunc]
            /\ heap = <<NewConstHandler(mapper, replaceFunc, order)>>
       \/ \E replaceVarMap \in RowMaps :
            /\ built = [kind |-> "row", mapper |-> replaceVarMap, replaceFunc |-> replaceFunc]
            /\ heap = <<NewRowHandler(replaceVarMap, replaceFunc)>>
  /\ handles = <<>>
  /\ call = NoCall
  /\ column = NilColumn
  /\ got = NoCall
  /\ source = NoCall
  /\ coll = NoCall
  /\ srcCalls = <<>>

\* The client calls WithColumn(c) on one of its RowHandlers and keeps the
\* handler returned, together with the Column it passed.
Bind ==
  /\ Len(handles) < MaxBinds
  /\ \E a \in DOMAIN heap, c \in BindColumns :
       /\ heap[a].kind = "row"
       /\ LET r == AllocWithColumn(heap, a, c)
          IN /\ heap' = r.heap
             /\ handles' = Append(handles, [h |-> r.ret, col |-> c])
  /\ UNCHANGED <<progVars, built, call, columnVars, collectionVars>>

\* The client calls HandleLine on one of its handlers: the call panics
\* (nil pointer dereference) or returns a line.
CallHandleLine ==
  /\ \E a \in DOMAIN heap, line \in HandlerLines :
       IF heap[a].kind = "row" /\ RowHandlePanics(heap[a])
       THEN call' = [h |-> a, line |-> line, panicked |-> TRUE, out |-> <<>>]
       ELSE \E order \in KeyOrders(IF heap[a].kind = "row"
                                     THEN heap[a].replaceVarMap ELSE EmptyMap) :
              call' = [h |-> a, line |-> line, panicked |-> FALSE,
                       out |-> HandleLine(heap[a], line, order)]
  /\ UNCHANGED <<progVars, built, heap, handles, columnVars, collectionVars>>

NextHandlers ==
  \/ Bind
  \/ CallHandleLine

SpecHandlers == InitHandlers /\ [][NextHandlers]_vars

\* ------------------------------------------------ clients of a Column
\* The longest header; the values are up to one longer.
MaxHead == 2

\* The header names and the values a Column is made of.
FieldNames == {<<"a">>, <<"b">>}
FieldValues == {<<"1">>, <<"2">>}

\* The keys the accessors are called with: the positions from -1 to one
\* behind the longest value sequence, the header names and a name no
\* header has, and a key that is neither int nor string.
AccessKeys ==
  {IntKey(i) : i \in (-1)..(MaxHead + 2)}
  \cup {StringKey(name) : name \in FieldNames \cup {<<"c">>}}
  \cup {OtherKey}

\* No Column is made yet.
InitColumn ==
  /\ ProgIdle
  /\ built = NoCall
  /\ heap = <<>>
  /\ handles = <<>>
  /\ call = NoCall
  /\ column = NilColumn
  /\ got = NoCall
  /\ source = NoCall
  /\ coll = NoCall
  /\ srcCalls = <<>>

\* The client calls NewColumn(head, entries) and keeps the Column with the
\* arguments it passed.
MakeColumn ==
  /\ column = NilColumn
  /\ \E h \in SeqsUpTo(FieldNames, MaxHead), e \in SeqsUpTo(FieldValues, MaxHead + 1) :
       column' = [head |-> h, entries |-> e, col |-> NewColumn(h, e)]
  /\ UNCHANGED <<progVars, handlerVars, got, collectionVars>>

\* The client calls the accessors of its Column with one key: Get and
\* Element, and GetPos and At for a position, GetKey and Value for a name.
Access ==
  /\ column # NilColumn
  /\ \E key \in AccessKeys :
       got' = [key |-> key,
               Get |-> Get(column.col, key),
               Element |-> Element(column.col, key),
               best |-> IF key.kind = "int" THEN GetPos(column.col, key.v)
                        ELSE IF key.kind = "string" THEN GetKey(column.col, key.v)
                             ELSE NoColEntry,
               strict |-> IF key.kind = "int" THEN At(column.col, key.v)
                          ELSE IF key.kind = "string" THEN Value(column.col, key.v)
                               ELSE [val |-> <<>>, err |-> "ColKeyError"]]
  /\ UNCHANGED <<progVars, handlerVars, column, collectionVars>>

NextColumn ==
  \/ MakeColumn
  \/ Access

SpecColumn == InitColumn /\ [][NextColumn]_vars

\* -------------------------------------------- clients of a Collection
\* The largest number of rows a CollectionSource of a client holds.
MaxRows == 2

\* The sources NewCollection is called on: a header and rows, shorter and
\* longer than the header, and a Head() or an Entries() that fails.
Sources ==
  [head : SeqsUpTo(FieldNames, MaxHead),
   headErr : {"nil", "head failed"},
   entries : SeqsUpTo(SeqsUpTo(FieldValues, MaxHead), MaxRows),
   entriesErr : {"nil", "entries failed"}]

\* A client holds a source and has not called NewCollection yet.
InitCollection ==
  /\ ProgIdle
  /\ built = NoCall
  /\ heap = <<>>
  /\ handles = <<>>
  /\ call = NoCall
  /\ column = NilColumn
  /\ got = NoCall
  /\ source \in Sources
  /\ coll = NoCall
  /\ srcCalls = <<>>

\* The client calls NewCollection(source).
Collect ==
  /\ coll = NoCall
  /\ coll' = NewCollection(source)
  /\ srcCalls' = srcCalls \o NewCollectionCalls(source)
  /\ UNCHANGED <<progVars, handlerVars, columnVars, source>>

NextCollection == Collect

SpecCollection == InitCollection /\ [][NextCollection]_vars

\* ------------------------------------------- clients of NewCSVReader
\* The records of a CSV text: the header h, and one row for every number
\* in lens with that many fields; field j of row i reads "i j".  A record
\* of the csv package has at least one field.
RaggedRecords(h, lens) ==
  <<h>> \o [i \in 1..Len(lens) |-> [j \in 1..lens[i] |-> <<Itoa(i), Itoa(j)>>]]

\* The texts NewCSVReader is called on: one that cannot be read, an empty
\* one, and a header of up to MaxHead names with up to MaxRows rows of up
\* to MaxHead + 1 fields each.
CsvTexts ==
  {[openErr |-> FALSE, readErr |-> TRUE, records |-> <<>>],
   [openErr |-> FALSE, readErr |-> FALSE, records |-> <<>>]}
  \cup {[openErr |-> FALSE, readErr |-> FALSE, records |-> RaggedRecords(h, lens)] :
          h \in SeqsUpTo(FieldNames, MaxHead) \ {<<>>},
          lens \in SeqsUpTo(1..(MaxHead + 1), MaxRows)}

\* A client holds a CSV text and has not called NewCSVReader yet.
InitCSV ==
  /\ ProgIdle
  /\ built = NoCall
  /\ heap = <<>>
  /\ handles = <<>>
  /\ call = NoCall
  /\ column = NilColumn
  /\ got = NoCall
  /\ source \in CsvTexts
  /\ coll = NoCall
  /\ srcCalls = <<>>

\* The client calls NewCSVReader(r, sep, head).
ReadCSV ==
  /\ built = NoCall
  /\ \E h \in BOOLEAN :
       LET r == NewCSVReader(source, h)
       IN built' = [head |-> h, reader |-> r.reader, err |-> r.err]
  /\ UNCHANGED <<progVars, heap, handles, call, columnVars, collectionVars>>

\* The client calls NewCollection on the reader it got.
CollectCSV ==
  /\ built # NoCall
  /\ built.err = "nil"
  /\ coll = NoCall
  /\ coll' = NewCollection(CSVReaderSource(built.reader))
  /\ srcCalls' = srcCalls \o NewCollectionCalls(CSVReaderSource(built.reader))
  /\ UNCHANGED <<progVars, handlerVars, columnVars, source>>

NextCSV ==
  \/ ReadCSV
  \/ CollectCSV

SpecCSV == InitCSV /\ [][NextCSV]_vars

\* ------------------------------------ clients of ApplyExpandHandlers
\* The longest list of handlers a client passes.
MaxChain == 3

\* The mappings of the client's ConstHandler: none, X for a value that is
\* itself a row placeholder, and X for a value to be escaped.
ChainConsts ==
  {EmptyMap,
   [k \in {<<"X">>} |-> <<"R">>],
   [k \in {<<"X">>} |-> <<"c", "&">>]}

\* The mappings of the client's RowHandler: none, and R for the field f.
ChainRows == {EmptyMap, [k \in {<<"R">>} |-> <<"f">>]}

\* The Columns the RowHandler is bound to: the field f holds a constant
\* placeholder, or a value to be escaped.
ChainColumns ==
  {NewColumn(<< <<"f">> >>, << <<"X">> >>),
   NewColumn(<< <<"f">> >>, << <<"v", "&">> >>)}

\* The lines the handlers are applied to.
ChainLines == {<<"X", "R">>, <<"R", "-", "X">>, <<"a", "&">>}

\* A client builds a ConstHandler (address 1) and a RowHandler bound to a
\* Column (address 2).
InitChain ==
  /\ ProgIdle
  /\ \E replaceFunc \in {"nil", "default"}, mapper \in ChainConsts,
        replaceVarMap \in ChainRows, c \in ChainColumns :
       \E order \in KeyOrders(mapper) :
         /\ built = [mapper |-> mapper, replaceVarMap |-> replaceVarMap,
                     replaceFunc |-> replaceFunc, col |-> c]
         /\ heap = <<NewConstHandler(mapper, replaceFunc, order),
                     WithColumn(NewRowHandler(replaceVarMap, replaceFunc), c)>>
  /\ handles = <<>>
  /\ call = NoCall
  /\ column = NilColumn
  /\ got = NoCall
  /\ source = NoCall
  /\ coll = NoCall
  /\ srcCalls = <<>>

\* The client calls ApplyExpandHandlers(line, handlers...) with a list
\* of its handlers, each any number of times and in any order.
CallApply ==
  /\ \E hs \in SeqsUpTo(DOMAIN heap, MaxChain), line \in ChainLines :
       \E order \in KeyOrders(heap[2].replaceVarMap) :
         call' = [hs |-> hs, line |-> line, order |-> order, panicked |-> FALSE,
                  out |-> ApplyExpandHandlers(line, [i \in 1..Len(hs) |-> heap[hs[i]]],
                                              order)]
  /\ UNCHANGED <<progVars, built, heap, handles, columnVars, collectionVars>>

NextChain == CallApply

SpecChain == InitChain /\ [][NextChain]_vars

\* ------------------------------------------- the configuration of expand
\* The Const and Rows mappings of the config file, and the -const and -row
\* pairs of the command line; some name the same placeholder.
ConfigConsts ==
  {EmptyMap,
   [k \in {<<"X">>} |-> <<"j">>],
   [k \in {<<"X">>, <<"Y">>} |-> IF k = <<"X">> THEN <<"j">> ELSE <<"k", "&">>]}
FlagConsts ==
  {EmptyMap,
   [k \in {<<"X">>} |-> <<"c", "&">>],
   [k \in {<<"Z">>} |-> <<"d">>]}
ConfigRows == {EmptyMap, [k \in {<<"R">>} |-> <<"g">>]}
FlagRows ==
  {EmptyMap,
   [k \in {<<"R">>} |-> <<"f">>],
   [k \in {<<"Q">>} |-> <<"f">>]}

\* MergeStringMaps(m1, m2) for the maps at the addresses a1 and a2 of the
\* heap hp: res is a new map, m1 and m2 are only read.
MergeAlloc(hp, a1, a2) ==
  [heap |-> Append(hp, MergeStringMaps(hp[a1], hp[a2])), ret |-> Len(hp) + 1]

\* expand, lines 65-94: the config file is decoded and the command line
\* pairs are parsed; the four maps are at the addresses 1 to 4.
InitConfig ==
  /\ pc = "config"
  /\ input = <<>>
  /\ constHandler = NewConstHandler(EmptyMap, "nil", <<>>)
  /\ rowHandler = NilRowHandler
  /\ singleFile = TRUE
  /\ outFilePath = <<>>
  /\ dataSource = <<>>
  /\ csvFile = NoFile
  /\ Untouched
  /\ \E jsonConst \in ConfigConsts, constMap \in FlagConsts,
        jsonRows \in ConfigRows, rowMap \in FlagRows, noEscape \in BOOLEAN :
       /\ built = [jsonConst |-> jsonConst, constMap |-> constMap,
                   jsonRows |-> jsonRows, rowMap |-> rowMap, noEscape |-> noEscape]
       /\ heap = <<jsonConst, constMap, jsonRows, rowMap>>
  /\ handles = <<>>
  /\ call = NoCall
  /\ column = NilColumn
  /\ got = NoCall
  /\ source = NoCall
  /\ coll = NoCall
  /\ srcCalls = <<>>

\* Line 95: constMap = MergeStringMaps(jsonConst, constMap)
MergeConst ==
  /\ pc = "config"
  /\ heap' = MergeAlloc(heap, 1, 2).heap
  /\ pc' = "constMerged"
  /\ UNCHANGED <<err, flagVars, input, csvFile, inOpen, scanVars, ret, prevRet, calls,
                 loopVars, sinkVars, built, handles, call, columnVars, collectionVars>>

\* Line 96: rowMap = MergeStringMaps(jsonRows, rowMap)
MergeRows ==
  /\ pc = "constMerged"
  /\ heap' = MergeAlloc(heap, 3, 4).heap
  /\ pc' = "rowsMerged"
  /\ UNCHANGED <<err, flagVars, input, csvFile, inOpen, scanVars, ret, prevRet, calls,
                 loopVars, sinkVars, built, handles, call, columnVars, collectionVars>>

\* Lines 97-105: the handlers are built from the merged maps.
BuildHandlers ==
  /\ pc = "rowsMerged"
  /\ LET replacer == IF built.noEscape THEN "nil" ELSE "default"
     IN /\ \E order \in KeyOrders(heap[5]) :
             constHandler' = NewConstHandler(heap[5], replacer, order)
        /\ rowHandler' = IF Cardinality(DOMAIN heap[6]) > 0
                          THEN NewRowHandler(heap[6], replacer)
                          ELSE NilRowHandler
  /\ pc' = "handlers"
  /\ UNCHANGED <<err, singleFile, outFilePath, dataSource, input, csvFile, inOpen,
                 scanVars, ret, prevRet, calls, loopVars, sinkVars, libVars>>

NextConfig ==
  \/ MergeConst
  \/ MergeRows
  \/ BuildHandlers

SpecConfig == InitConfig /\ [][NextConfig]_vars

\* ------------------------------------------------------------------ claims
\* The positions of the lines of doc that start with the begin marker, and
\* of those that start with the end marker.
BeginLines(doc) == {i \in 1..Len(doc) : HasPrefix(doc[i], BeginMarker)}
EndLines(doc) == {i \in 1..Len(doc) : HasPrefix(doc[i], EndMarker)}

\* doc has exactly one begin-marker line, followed later by its only
\* end-marker line.
WellMarked(doc) ==
  /\ Cardinality(BeginLines(doc)) = 1
  /\ Cardinality(EndLines(doc)) = 1
  /\ Least(BeginLines(doc)) < Least(EndLines(doc))

\* doc has a begin-marker line and an end-marker line after the first one.
Splittable(doc) ==
  /\ BeginLines(doc) # {}
  /\ \E e \in EndLines(doc) : e > Least(BeginLines(doc))

\* The sections of a Splittable doc: the lines before the first begin
\* marker, those up to the first end marker behind it, and the rest.
FirstBegin(doc) == Least(BeginLines(doc))
FirstEnd(doc) == Least({e \in EndLines(doc) : e > FirstBegin(doc)})
DocHead(doc) == SubSeq(doc, 1, FirstBegin(doc) - 1)
DocBody(doc) == SubSeq(doc, FirstBegin(doc) + 1, FirstEnd(doc) - 1)
DocFoot(doc) == SubSeq(doc, FirstEnd(doc) + 1, Len(doc))

\* C1: for an input with exactly one begin-marker line followed later by
\* exactly one end-marker line, all of whose lines the scanner delivers,
\* ExpandParseTex succeeds; head is the lines before the begin-marker line,
\* body the lines strictly between the two marker lines, foot the lines
\* after the end-marker line, each in the original order, so that
\* len(head) + len(body) + len(foot) = totalLines - 2; and a second split of
\* the same input returns the same three sections.
C1_SplitSections ==
  (pc = "returned" /\ WellMarked(input) /\ ret.err # "scan") =>
    /\ ret.err = "nil"
    /\ ret.head = SubSeq(input, 1, Least(BeginLines(input)) - 1)
    /\ ret.body = SubSeq(input, Least(BeginLines(input)) + 1, Least(EndLines(input)) - 1)
    /\ ret.foot = SubSeq(input, Least(EndLines(input)) + 1, Len(input))
    /\ Len(ret.head) + Len(ret.body) + Len(ret.foot) + 2 = Len(input)
    /\ (calls >= 1 /\ prevRet.err # "scan") => ret = prevRet

\* A second split of a five-line document with one line in each section
\* has returned.
C1_Witness ==
  /\ pc = "returned"
  /\ calls = 1
  /\ WellMarked(input)
  /\ ret.err = "nil"
  /\ prevRet.err = "nil"
  /\ Len(ret.head) = 1
  /\ Len(ret.body) = 1
  /\ Len(ret.foot) = 1

\* C2: ExpandParseTex fails whenever the scan does not end in the foot
\* state, in particular on every input without a begin-marker line and on
\* every input with a begin-marker line but no end-marker line after it;
\* and whenever it fails, the three returned sections are nil, whatever
\* head and body had collected.
C2_SplitFails ==
  pc = "returned" =>
    /\ (state # "inFoot" \/ ~Splittable(input)) => ret.err # "nil"
    /\ ret.err # "nil" => (ret.head = <<>> /\ ret.body = <<>> /\ ret.foot = <<>>)

\* The split of a document without an end marker has failed after head and
\* body lines were collected.
C2_Witness ==
  /\ pc = "returned"
  /\ state = "inBody"
  /\ BeginLines(input) # {}
  /\ Len(head) > 0
  /\ Len(body) > 0
  /\ ret.err = "syntax"
  /\ ret.head = <<>>
  /\ ret.body = <<>>

\* a is an initial stretch of b.
IsPrefix(a, b) == Len(a) <= Len(b) /\ a = SubSeq(b, 1, Len(a))

\* The elements of a sequence.
Range(q) == {q[i] : i \in 1..Len(q)}

\* The lines ls, each transformed by the ConstHandler alone.
ConstLines(ls) == [i \in 1..Len(ls) |-> Replace(constHandler.replacer, ls[i])]

\* The line l transformed by the ConstHandler and then by the RowHandler
\* bound to the Column c.
RowLine(c, l) ==
  RowHandleLine(WithColumn(rowHandler, c), Replace(constHandler.replacer, l),
                CHOOSE o \in KeyOrders(rowHandler.replaceVarMap) : TRUE)

\* The body lines expanded for the Column c.
BodyFor(c) == [i \in 1..Len(body) |-> RowLine(c, body[i])]

\* The body lines expanded for each of the Columns cols[i..], in order.
RECURSIVE BodiesFrom(_, _)
BodiesFrom(cols, i) ==
  IF i > Len(cols) THEN <<>> ELSE BodyFor(cols[i]) \o BodiesFrom(cols, i + 1)

\* The lines the sink of a merge or plain run holds.
Sink == IF Len(out) = 0 THEN stdout ELSE fs[out]

\* The run is in merge mode with a row mapping and a Collection.
MergeRun == singleFile /\ rowHandler # NilRowHandler /\ collection # NilCollection

\* The run is in fan-out mode with a row mapping and a Collection.
FanRun == ~singleFile /\ rowHandler # NilRowHandler /\ collection # NilCollection

\* C3: in merge mode with a non-empty row mapping and a Collection of n
\* Columns, the lines written to the one sink are, in this order: every head
\* line through the ConstHandler alone, then for each Column in Collection
\* order every body line through the ConstHandler and then the RowHandler
\* bound to that Column, then every foot line through the ConstHandler
\* alone.  While the run writes (and when a write aborts it) the sink holds
\* an initial stretch of that sequence; when the run ends it holds all of
\* it, len(head) + n*len(body) + len(foot) lines.
C3_MergeOutput ==
  MergeRun =>
    LET want == ConstLines(head) \o BodiesFrom(collection.Columns, 1) \o ConstLines(foot)
    IN /\ IsPrefix(Sink, want)
       /\ pc = "done" =>
            /\ Sink = want
            /\ Len(Sink) = Len(head) + Len(collection.Columns) * Len(body) + Len(foot)

\* A merge run over 3 Columns and a body of 2 lines has ended.
C3_Witness ==
  /\ MergeRun
  /\ pc = "done"
  /\ Len(collection.Columns) = 3
  /\ Len(body) = 2
  /\ Len(head) = 1
  /\ Len(Sink) = 7

\* The lines the sink of a run without row handler holds.
PlainSink ==
  IF Len(outFilePath) = 0 THEN stdout
  ELSE IF outFilePath \in DOMAIN fs THEN fs[outFilePath] ELSE <<>>

\* C4 as stated: without a row mapping the output is exactly the Document's
\* head lines, then its body lines, then its foot lines, each through the
\* ConstHandler, and no line outside head, body and foot.
C4_Original ==
  (rowHandler = NilRowHandler /\ pc = "done" /\ Splittable(input)) =>
    PlainSink = ConstLines(DocHead(input) \o DocBody(input) \o DocFoot(input))

\* C4, amended: without a row mapping the output is exactly the lines of the
\* input file, the marker lines included, each written once in the original
\* order and each transformed by the ConstHandler only: after pos lines were
\* read the sink holds the first pos lines, at the end all of them; the
\* document is not split and no other sink is written.
C4_PlainOutput ==
  rowHandler = NilRowHandler =>
    /\ PlainSink = ConstLines(SubSeq(input, 1, pos))
    /\ pc = "done" => PlainSink = ConstLines(input)
    /\ DOMAIN fs \subseteq {outFilePath}
    /\ Len(outFilePath) # 0 => stdout = <<>>
    /\ ret = NoRet

\* A run without row mapping over a five-line document with both markers
\* has ended.
C4_Witness ==
  /\ rowHandler = NilRowHandler
  /\ pc = "done"
  /\ WellMarked(input)
  /\ Len(input) = 5
  /\ Len(PlainSink) = 5

\* The path of out<i>.tex in the target directory, i counted from 1.
ColumnFile(i) ==
  IF Len(outFilePath) = 0 THEN <<"out", Itoa(i), ".tex">>
  ELSE outFilePath \o <<"/", "out", Itoa(i), ".tex">>

\* What the file of the Column at position i (from 1) is to hold.
FileFor(i) == ConstLines(head) \o BodyFor(collection.Columns[i]) \o ConstLines(foot)

\* C5: in fan-out mode with a non-empty row mapping and a Collection of n
\* Columns, when every open and every write succeeded, exactly n files were
\* produced; the file of the Column at position i (from 1) is out<i>.tex in
\* the target directory and holds the head lines (ConstHandler), the body
\* lines expanded for Column i only (ConstHandler, then the RowHandler bound
\* to Column i) and the foot lines (ConstHandler), and not what another
\* Column's values expand to.
C5_FanOutFiles ==
  (FanRun /\ pc = "done" /\ log = <<>>) =>
    LET n == Len(collection.Columns)
    IN /\ DOMAIN fs = {ColumnFile(i) : i \in 1..n}
       /\ Cardinality(DOMAIN fs) = n
       /\ \A i \in 1..n : fs[ColumnFile(i)] = FileFor(i)
       /\ \A i, j \in 1..n :
            FileFor(i) # FileFor(j) => fs[ColumnFile(i)] # FileFor(j)
       /\ stdout = <<>>

\* A fan-out run over 3 Columns with head, body and foot lines has ended
\* without a failure.
C5_Witness ==
  /\ FanRun
  /\ pc = "done"
  /\ log = <<>>
  /\ Len(collection.Columns) = 3
  /\ Len(head) = 1
  /\ Len(body) = 1
  /\ Len(foot) = 1
  /\ Cardinality(DOMAIN fs) = 3

\* The section the fan-out loop is writing.
Section == IF pc = "f_head" THEN head ELSE IF pc = "f_body" THEN body ELSE foot

\* C6: in fan-out mode, a step in which the write of the pending line to
\* the open file of the Column at index col fails (the file gets no line)
\* closes that file and aborts the run, no file of a later Column exists,
\* and no step follows the abort: no further line is written and no further
\* file is opened.
C6_WriteFailureAborts ==
  [][/\ (FanRun /\ pc \in {"f_head", "f_body", "f_foot"} /\ ln < Len(Section) /\ fs' = fs) =>
          /\ pc' = "panic"
          /\ err' = "writeErr"
          /\ open' = {}
          /\ \A j \in (col + 2)..Len(collection.Columns) : ColumnFile(j) \notin DOMAIN fs'
     /\ ~(FanRun /\ pc = "panic")]_vars

\* A write to the file of the first of several Columns failed after a line
\* was written to it.
C6_Witness ==
  /\ FanRun
  /\ pc = "panic"
  /\ err = "writeErr"
  /\ col = 0
  /\ Len(collection.Columns) >= 2
  /\ Len(fs[out]) >= 1
  /\ out \notin open

\* C7: in fan-out mode, a Column whose file could not be created is only
\* skipped: nothing is written for it and the run does not abort (a run
\* that aborts does so on a failed write); when the run ends, every Column
\* whose file could be created, also behind a skipped one, has its lines in
\* the file named by its own position.
C7_OpenFailureSkips ==
  FanRun =>
    LET n == Len(collection.Columns)
    IN /\ \A i \in 1..n : ColumnFile(i) \in Range(log) => ColumnFile(i) \notin DOMAIN fs
       /\ pc = "panic" => err = "writeErr"
       /\ pc = "done" =>
            \A i \in 1..n :
              ColumnFile(i) \notin Range(log) =>
                (ColumnFile(i) \in DOMAIN fs /\ fs[ColumnFile(i)] = FileFor(i))

\* A fan-out run over 3 Columns has ended; the file of the second Column
\* could not be created, the third Column's file holds its lines.
C7_Witness ==
  /\ FanRun
  /\ pc = "done"
  /\ Len(collection.Columns) = 3
  /\ log = <<ColumnFile(2)>>
  /\ ColumnFile(3) \in DOMAIN fs
  /\ Len(fs[ColumnFile(3)]) >= 2

\* C8: in fan-out mode at most one output file is open at any time: while a
\* Column's lines are written only that Column's file is open, and no file
\* is open when the loop turns to the next Column, when the run ends and
\* when a failed write aborts it.
C8_OneSinkOpen ==
  (~singleFile /\ rowHandler # NilRowHandler) =>
    /\ Cardinality(open) <= 1
    /\ pc \in {"f_head", "f_body", "f_foot"} => open = {out}
    /\ pc \in {"f_col", "done", "panic"} => open = {}

\* A failed write aborted a fan-out run at its second Column, whose file
\* was opened after the first Column's file.
C8_Witness ==
  /\ FanRun
  /\ pc = "panic"
  /\ err = "writeErr"
  /\ col = 1
  /\ ColumnFile(1) \in DOMAIN fs
  /\ ColumnFile(2) \in DOMAIN fs
  /\ open = {}

\* The errors of the document split and of reading the tabular source.
ConstructionErrors == {"scan", "syntax", "csv open", "csv read", "csv no head"}

\* C9: when the document split or the reading of the tabular source fails,
\* the run aborts before any output: no output file has been created or
\* truncated and no line has been written.
C9_NoOutputBeforeAbort ==
  (pc = "panic" /\ err \in ConstructionErrors) =>
    /\ DOMAIN fs = {}
    /\ stdout = <<>>

\* C10 as stated: fan-out mode with an empty row mapping and a data source
\* of 3 rows produces 3 files, one per Column, each holding the head lines
\* followed by the foot lines through the ConstHandler.
C10_Original ==
  (/\ ~singleFile
   /\ rowHandler = NilRowHandler
   /\ dataSource # <<>>
   /\ csvFile = [openErr |-> FALSE, readErr |-> FALSE, records |-> CsvRecords(3)]
   /\ Splittable(input)
   /\ pc = "done") =>
    /\ DOMAIN fs = {ColumnFile(i) : i \in 1..3}
    /\ \A i \in 1..3 : fs[ColumnFile(i)] = ConstLines(DocHead(input) \o DocFoot(input))

\* C10, amended: with an empty row mapping the fan-out flag and the data
\* source are ignored: the data source is never read, no file out<i>.tex is
\* created, and when the run ends the one sink (os.Stdout, or the file at
\* the -out path) holds every line of the input, marker and body lines
\* included, through the ConstHandler.
C10_EmptyRowMapIgnoresFanOut ==
  (~singleFile /\ rowHandler = NilRowHandler) =>
    /\ csv = NilCSVReader
    /\ collection = NilCollection
    /\ \A i \in 1..(MaxCols + 1) : ColumnFile(i) \notin DOMAIN fs
    /\ pc = "done" =>
         /\ Len(PlainSink) = Len(input)
         /\ \A i \in 1..Len(input) : PlainSink[i] = Replace(constHandler.replacer, input[i])

\* A run in fan-out mode with an empty row mapping and a data source of 3
\* rows has ended, over a document with head, body and foot lines.
C10_Witness ==
  /\ ~singleFile
  /\ rowHandler = NilRowHandler
  /\ dataSource # <<>>
  /\ csvFile = [openErr |-> FALSE, readErr |-> FALSE, records |-> CsvRecords(3)]
  /\ WellMarked(input)
  /\ Len(input) = 5
  /\ pc = "done"
  /\ Len(PlainSink) = 5

\* The run is in merge mode with a row mapping and no data source.
NoCollectionRun == singleFile /\ rowHandler # NilRowHandler /\ Len(dataSource) = 0

\* C11: in merge mode with a non-empty row mapping and no data source, no
\* Collection is built and the body is skipped: the sink holds at every
\* moment an initial stretch of the head lines followed by the foot lines,
\* each through the ConstHandler, and all of them when the run ends.
C11_NoCollectionSkipsBody ==
  NoCollectionRun =>
    LET want == ConstLines(head) \o ConstLines(foot)
    IN /\ csv = NilCSVReader
       /\ collection = NilCollection
       /\ IsPrefix(Sink, want)
       /\ pc = "done" => Sink = want

\* A merge run without data source over a document with a line in each
\* section has ended.
C11_Witness ==
  /\ NoCollectionRun
  /\ pc = "done"
  /\ Len(head) = 1
  /\ Len(body) = 1
  /\ Len(foot) = 1
  /\ Len(Sink) = 2

\* The lines of the input the scanner has delivered to the current call.
Seen == SubSeq(input, 1, pos)

\* The parse state and the three sections are those of the lines seen:
\* only the first begin-marker line and the first end-marker line behind it
\* are markers, every other line is kept, verbatim, in its section.
SectionsOfSeen ==
  IF BeginLines(Seen) = {}
  THEN /\ state = "inHead"
       /\ head = Seen
       /\ body = <<>>
       /\ foot = <<>>
  ELSE IF ~Splittable(Seen)
       THEN /\ state = "inBody"
            /\ head = DocHead(Seen)
            /\ body = SubSeq(Seen, FirstBegin(Seen) + 1, Len(Seen))
            /\ foot = <<>>
       ELSE /\ state = "inFoot"
            /\ head = DocHead(Seen)
            /\ body = DocBody(Seen)
            /\ foot = DocFoot(Seen)

\* inHead, then inBody, then inFoot.
StateRank(st) == IF st = "inHead" THEN 0 ELSE IF st = "inBody" THEN 1 ELSE 2

\* C14: the splitter recognises each marker at most once per document.
\* After every step the sections are those of the lines seen so far: a line
\* that starts with the end marker while in head is a head line, a line
\* that starts with the begin marker while in body is a body line, and once
\* the end marker was seen every line, marker lines included, is a foot
\* line; and within one call the parse state never moves back.
C14_MarkersOnce ==
  [][/\ SectionsOfSeen'
     /\ pc = "split" => StateRank(state) <= StateRank(state')]_vars

\* The splitter is in the foot and has kept a line starting with a marker
\* in each of head, body and foot.
C14_Witness ==
  /\ state = "inFoot"
  /\ \E i \in 1..Len(head) : HasPrefix(head[i], EndMarker)
  /\ \E i \in 1..Len(body) : HasPrefix(body[i], BeginMarker)
  /\ \E i \in 1..Len(foot) : HasPrefix(foot[i], BeginMarker) \/ HasPrefix(foot[i], EndMarker)

\* The last HandleLine call was made on a RowHandler that was built by
\* NewRowHandler and never bound to a Column.
UnboundCall ==
  /\ call # NoCall
  /\ built.kind = "row"
  /\ call.h \notin {handles[i].h : i \in 1..Len(handles)}

\* C12 as stated: HandleLine on a RowHandler that was never bound to a
\* Column panics, for every line and every placeholder mapping.
C12_Original == UnboundCall => call.panicked

\* C12, amended: HandleLine on a RowHandler that was never bound to a Column
\* panics, for every line, exactly when the placeholder mapping the handler
\* was built with is not empty; with an empty mapping it returns the line
\* unchanged.
C12_UnboundPanics ==
  UnboundCall =>
    /\ call.panicked <=> Cardinality(DOMAIN built.mapper) > 0
    /\ ~call.panicked => call.out = call.line

\* HandleLine was called on the unbound template with a mapping, after the
\* client had bound other handlers from it, and panicked.
C12_Witness ==
  /\ UnboundCall
  /\ Len(handles) > 0
  /\ Cardinality(DOMAIN built.mapper) > 0
  /\ call.panicked

\* The handler a client expects from binding the Column c: the mapping
\* and the escape function the template was built with, and c.
BoundTo(c) == WithColumn(NewRowHandler(built.mapper, built.replaceFunc), c)

\* The last HandleLine call, if made on a handler that WithColumn returned,
\* gave what the template's mapping gives for the Column passed to that
\* WithColumn call, whatever was bound or called before or after.
BoundResults ==
  \A i \in 1..Len(handles) :
    (call # NoCall /\ call.h = handles[i].h) =>
      /\ ~call.panicked
      /\ \E order \in KeyOrders(built.mapper) :
           call.out = RowHandleLine(BoundTo(handles[i].col), call.line, order)

\* C13: WithColumn is pure.  Whatever the client has bound and called, the
\* template is as it was built (same mapping, same escape function, no
\* Column), every WithColumn call has returned a new handler, every bound
\* handler, also one that was itself the receiver of a later WithColumn,
\* holds the template's mapping and escape function and the Column passed
\* when it was bound, and the result of HandleLine on a bound handler
\* depends only on the line and on that Column.
C13_WithColumnPure ==
  built.kind = "row" =>
    /\ heap[1] = NewRowHandler(built.mapper, built.replaceFunc)
    /\ Len(heap) = 1 + Len(handles)
    /\ \A i \in 1..Len(handles) :
         /\ handles[i].h = i + 1
         /\ heap[handles[i].h] = BoundTo(handles[i].col)
    /\ BoundResults

\* Two handlers were bound from one template to different Columns, and the
\* one bound first has replaced a placeholder by a value of its Column.
C13_Witness ==
  /\ Len(handles) = 2
  /\ handles[1].col # handles[2].col
  /\ call # NoCall
  /\ call.h = handles[1].h
  /\ ~call.panicked
  /\ call.out # call.line
  /\ \A order \in KeyOrders(built.mapper) :
       call.out # RowHandleLine(BoundTo(handles[2].col), call.line, order)

\* The placeholders of the mapping m, in some fixed order.
KeySeq(m) == CHOOSE o \in KeyOrders(m) : TRUE

\* The placeholder key occurs in s at position i.
OccursAt(s, i, key) == HasPrefix(SubSeq(s, i, Len(s)), key)

\* The ways to read the line s in one scan from the left, for the
\* placeholders keys[1..n]: position i starts an occurrence of keys[c[i]]
\* (c[i] in 1..n), lies inside the occurrence started before it
\* (c[i] = n + 1), or is copied (c[i] = 0).  Occurrences do not overlap, and
\* a position is copied only if no placeholder occurs there.
ScanParses(keys, s) ==
  LET n == Len(keys)
  IN {c \in [1..Len(s) -> 0..(n + 1)] :
        \A i \in 1..Len(s) :
          /\ c[i] \in 1..n =>
               /\ OccursAt(s, i, keys[c[i]])
               /\ \A j \in (i + 1)..(i + Len(keys[c[i]]) - 1) : c[j] = n + 1
          /\ c[i] = n + 1 =>
               \E q \in 1..(i - 1) : /\ c[q] \in 1..n
                                     /\ i <= q + Len(keys[c[q]]) - 1
          /\ c[i] = 0 => \A k \in 1..n : ~OccursAt(s, i, keys[k])}

\* The line a reading c of s gives when each occurrence is replaced by the
\* value of its placeholder and nothing else is changed.
RECURSIVE Emit(_, _, _, _, _)
Emit(c, keys, val, s, i) ==
  IF i > Len(s) THEN <<>>
  ELSE (IF c[i] = 0 THEN <<s[i]>>
        ELSE IF c[i] = Len(keys) + 1 THEN <<>>
             ELSE val[keys[c[i]]]) \o Emit(c, keys, val, s, i + 1)

\* The lines that replacing, in one scan of s from the left, every
\* non-overlapping occurrence of a placeholder of val by its value can give.
Substituted(val, s) ==
  {Emit(c, KeySeq(val), val, s, 1) : c \in ScanParses(KeySeq(val), s)}

\* The last HandleLine call was made on a ConstHandler.
ConstCall == call # NoCall /\ built.kind = "const"

\* C19: HandleLine of a ConstHandler replaces, in one scan of the line from
\* the left, every non-overlapping occurrence of a registered placeholder by
\* its value, escaped once (when an escape function was given); what a
\* replacement inserted is not scanned again.  With the mapping X -> foo and
\* no escaping the line X-X becomes foo-foo.
C19_ConstReplacesOnce ==
  ConstCall =>
    /\ ~call.panicked
    /\ call.out \in Substituted([k \in DOMAIN built.mapper |->
                                   ApplyEscape(built.replaceFunc, built.mapper[k])],
                                call.line)
    /\ (/\ built.mapper = [k \in {<<"X">>} |-> <<"foo">>]
        /\ built.replaceFunc = "nil"
        /\ call.line = <<"X", "-", "X">>) => call.out = <<"foo", "-", "foo">>

\* A ConstHandler whose values hold a registered placeholder and a
\* character to escape has replaced both placeholders in one line.
C19_Witness ==
  /\ ConstCall
  /\ built.replaceFunc = "default"
  /\ DOMAIN built.mapper = {<<"X">>, <<"Y">>}
  /\ call.line = <<"Y", "X", "Y">>
  /\ call.out = <<"X", "\\", "&", "Y", "X", "\\", "&">>

\* The greatest element of a non-empty set of numbers.
Greatest(S) == CHOOSE k \in S : \A j \in S : j <= k

\* The positions at which the header of the Column c names a value: the
\* first min(len(header), len(values)) ones (counted from 1).
Paired(c) == 1..IntMin(Len(c.Head), Len(c.Entries))

\* The value the Column c has for the field name: the value at the last
\* paired position whose header name it is, the sentinel if there is none.
FieldValue(c, name) ==
  LET at == {j \in Paired(c) : c.Head[j] = name}
  IN IF at = {} THEN NoColEntry ELSE c.Entries[Greatest(at)]

\* C20: HandleLine of a RowHandler bound to a Column, with a non-empty
\* mapping, replaces every occurrence of each registered placeholder p by
\* escape(v), v being the Column's value for the field mapped to p or the
\* sentinel "NO VALUE" when the Column has no such field (escape is the
\* identity without escape function); with an empty mapping the line is
\* returned unchanged.
C20_RowReplaces ==
  \A i \in 1..Len(handles) :
    (call # NoCall /\ call.h = handles[i].h) =>
      /\ ~call.panicked
      /\ call.out \in
           Substituted([p \in DOMAIN built.mapper |->
                          ApplyEscape(built.replaceFunc,
                                      FieldValue(handles[i].col, built.mapper[p]))],
                       call.line)
      /\ Cardinality(DOMAIN built.mapper) = 0 => call.out = call.line

\* A handler for the placeholders R and Q, bound to a Column that has the
\* field of R and not that of Q, has replaced R by the escaped value and Q
\* by the sentinel.
C20_Witness ==
  /\ call # NoCall
  /\ \E i \in 1..Len(handles) :
       /\ call.h = handles[i].h
       /\ handles[i].col.Head = << <<"f">> >>
  /\ built.replaceFunc = "default"
  /\ call.line = <<"R", "Q", "R">>
  /\ call.out = <<"v", "\\", "&", "NO VALUE", "v", "\\", "&">>

\* The header and the values the client passed to NewColumn.
Given == [Head |-> column.head, Entries |-> column.entries]

\* C15: NewColumn builds a Map whose keys are exactly the header names at
\* the first n = min(len(header), len(values)) positions, each mapped to
\* the value at the last such position that bears the name.  GetPos(i) is
\* values[i] for 0 <= i < len(values), also behind the header's length, and
\* the sentinel "NO VALUE" otherwise; GetKey(name) is the mapped value, or
\* the sentinel for a name that is not in the Map.  For the header [a, b]
\* and the values [1]: GetPos(0) = 1, GetPos(1) = sentinel, GetKey(a) = 1,
\* GetKey(b) = sentinel.
C15_ColumnLookup ==
  column # NilColumn =>
    /\ column.col.Head = column.head
    /\ column.col.Entries = column.entries
    /\ DOMAIN column.col.Map = {column.head[j] : j \in Paired(Given)}
    /\ \A name \in DOMAIN column.col.Map : column.col.Map[name] = FieldValue(Given, name)
    /\ (got # NoCall /\ got.key.kind = "int") =>
         got.best = IF 0 <= got.key.v /\ got.key.v < Len(column.entries)
                    THEN column.entries[got.key.v + 1]
                    ELSE NoColEntry
    /\ (got # NoCall /\ got.key.kind = "string") =>
         got.best = FieldValue(Given, got.key.v)
    /\ (/\ got # NoCall
        /\ column.head = << <<"a">>, <<"b">> >>
        /\ column.entries = << <<"1">> >>) =>
         /\ got.key = IntKey(0) => got.best = <<"1">>
         /\ got.key = IntKey(1) => got.best = NoColEntry
         /\ got.key = StringKey(<<"a">>) => got.best = <<"1">>
         /\ got.key = StringKey(<<"b">>) => got.best = NoColEntry

\* A Column whose header names a twice and has fewer names than values:
\* GetKey(a) gave the later value.
C15_Witness ==
  /\ column # NilColumn
  /\ column.head = << <<"a">>, <<"a">> >>
  /\ column.entries = << <<"1">>, <<"2">>, <<"1">> >>
  /\ got # NoCall
  /\ got.key = StringKey(<<"a">>)
  /\ got.best = <<"2">>

\* The key of the last accessor call is an out-of-range position, an
\* absent name or a key that is neither int nor string.
BadKey ==
  \/ /\ got.key.kind = "int"
     /\ (got.key.v < 0 \/ got.key.v >= Len(column.entries))
  \/ /\ got.key.kind = "string"
     /\ got.key.v \notin {column.head[j] : j \in Paired(Given)}
  \/ got.key.kind = "other"

\* C16: the best-effort accessors (Get, GetPos, GetKey) and the strict ones
\* (Element, At, Value) look up the same way and differ only in how they
\* report failure: the strict accessor returns an error exactly for an
\* out-of-range position, an absent name or an unsupported key kind, and
\* then the best-effort accessor returns the sentinel; when the strict
\* accessor succeeds with v, the best-effort accessor returns v.
C16_AccessorTiers ==
  got # NoCall =>
    /\ got.Element.err # "nil" <=> BadKey
    /\ got.strict.err # "nil" <=> BadKey
    /\ BadKey => got.Get = NoColEntry /\ got.best = NoColEntry
    /\ ~BadKey => got.Get = got.Element.val /\ got.best = got.strict.val

\* The accessors were called with a name the Column lacks: Value and
\* Element failed, GetKey and Get gave the sentinel.
C16_Witness ==
  /\ got # NoCall
  /\ got.key = StringKey(<<"b">>)
  /\ column.head = << <<"a">>, <<"b">> >>
  /\ column.entries = << <<"1">> >>
  /\ got.strict.err = "ColKeyError"
  /\ got.Element.err = "ColKeyError"
  /\ got.best = NoColEntry
  /\ got.Get = NoColEntry

\* C17: when the source's Head and Entries both succeed, NewCollection
\* returns a Collection with one Column per source row, in source order,
\* and every Column's Head is the header that is the Collection's Head.
C17_OneColumnPerRow ==
  (coll # NoCall /\ source.headErr = "nil" /\ source.entriesErr = "nil") =>
    /\ coll.err = "nil"
    /\ coll.collection # NilCollection
    /\ coll.collection.Head = source.head
    /\ Len(coll.collection.Columns) = Len(source.entries)
    /\ \A i \in 1..Len(source.entries) :
         /\ coll.collection.Columns[i].Entries = source.entries[i]
         /\ coll.collection.Columns[i].Head = coll.collection.Head

\* A Collection was built from two different rows under a header of two
\* names.
C17_Witness ==
  /\ coll # NoCall
  /\ coll.err = "nil"
  /\ Len(source.head) = 2
  /\ Len(coll.collection.Columns) = 2
  /\ coll.collection.Columns[1].Entries # coll.collection.Columns[2].Entries
  /\ Len(coll.collection.Columns[2].Entries) = 1

\* C18: NewCollection fetches the header once and the rows at most once and
\* returns no partial result: when Head fails, Entries is not called and
\* the header error is returned with no Collection; when Entries fails, the
\* entries error is returned with no Collection and no Column.
C18_AbortsOnFirstFailure ==
  coll # NoCall =>
    /\ Cardinality({i \in 1..Len(srcCalls) : srcCalls[i] = "Head"}) = 1
    /\ Cardinality({i \in 1..Len(srcCalls) : srcCalls[i] = "Entries"}) <= 1
    /\ source.headErr # "nil" =>
         /\ srcCalls = <<"Head">>
         /\ coll.err = source.headErr
         /\ coll.collection = NilCollection
    /\ (source.headErr = "nil" /\ source.entriesErr # "nil") =>
         /\ srcCalls = <<"Head", "Entries">>
         /\ coll.err = source.entriesErr
         /\ coll.collection = NilCollection

\* NewCollection was called on a source with rows whose Entries fails.
C18_Witness ==
  /\ coll # NoCall
  /\ source.headErr = "nil"
  /\ source.entriesErr # "nil"
  /\ Len(source.entries) = 2
  /\ coll.err = "entries failed"

\* The run is in fan-out mode with a row mapping and no data source.
NoDataFanRun == ~singleFile /\ rowHandler # NilRowHandler /\ Len(dataSource) = 0

\* C24: in fan-out mode with a non-empty row mapping and no data source,
\* no output file is ever opened, created or written and nothing is written
\* to standard output or logged; after a successful split the run ends
\* normally, without an error; a failed split is reported and ends the run
\* with its error.
C24_FanOutWithoutData ==
  NoDataFanRun =>
    /\ fs = EmptyMap
    /\ open = {}
    /\ stdout = <<>>
    /\ log = <<>>
    /\ pc \in {"open", "split", "returned", "fanout", "done", "panic"}
    /\ pc = "done" => err = "nil" /\ ret # NoRet /\ ret.err = "nil"
    /\ (ret # NoRet /\ ret.err = "nil") => pc # "panic"
    /\ (ret # NoRet /\ ret.err # "nil") =>
         /\ pc \in {"returned", "panic"}
         /\ pc = "panic" => err = ret.err

\* A fan-out run without data source has split a document with a body and
\* has ended.
C24_Witness ==
  /\ NoDataFanRun
  /\ pc = "done"
  /\ Len(body) > 0
  /\ Len(head) > 0

\* res has the keys of m1 and of m2, with m2's value for a key of m2 and
\* m1's value otherwise.
MergedOf(res, m1, m2) ==
  /\ DOMAIN res = (DOMAIN m1) \cup (DOMAIN m2)
  /\ \A k \in DOMAIN res : res[k] = IF k \in DOMAIN m2 THEN m2[k] ELSE m1[k]

\* C23: MergeStringMaps(m1, m2) returns a new map with the keys of both,
\* m2's value for every key of m2 and m1's value otherwise, and leaves m1
\* and m2 as they were (an empty or nil map adds nothing).  In expand the
\* config file's map is m1 and the command line's is m2, so that the
\* handlers are built, for Const and for Rows, with the command line's
\* entry for a placeholder both name.
C23_MergePrefersSecond ==
  /\ Len(heap) >= 4
  /\ SubSeq(heap, 1, 4) = <<built.jsonConst, built.constMap, built.jsonRows, built.rowMap>>
  /\ Len(heap) >= 5 => MergedOf(heap[5], built.jsonConst, built.constMap)
  /\ Len(heap) >= 6 => MergedOf(heap[6], built.jsonRows, built.rowMap)
  /\ pc = "handlers" =>
       /\ Range(constHandler.replacer) =
            {<<k, ApplyEscape(IF built.noEscape THEN "nil" ELSE "default",
                              IF k \in DOMAIN built.constMap
                              THEN built.constMap[k] ELSE built.jsonConst[k])>> :
               k \in (DOMAIN built.jsonConst) \cup (DOMAIN built.constMap)}
       /\ Len(constHandler.replacer) =
            Cardinality((DOMAIN built.jsonConst) \cup (DOMAIN built.constMap))
       /\ IF DOMAIN built.jsonRows = {} /\ DOMAIN built.rowMap = {}
          THEN rowHandler = NilRowHandler
          ELSE /\ rowHandler # NilRowHandler
               /\ MergedOf(rowHandler.replaceVarMap, built.jsonRows, built.rowMap)

\* The config file and the command line both name X as a constant and R as
\* a row placeholder, the config file names Y besides, and the handlers
\* were built with the command line's X and R and the config file's Y.
C23_Witness ==
  /\ pc = "handlers"
  /\ built.noEscape
  /\ DOMAIN built.jsonConst = {<<"X">>, <<"Y">>}
  /\ DOMAIN built.constMap = {<<"X">>}
  /\ DOMAIN built.jsonRows = {<<"R">>}
  /\ DOMAIN built.rowMap = {<<"R">>}
  /\ constHandler.replacer = << << <<"X">>, <<"c", "&">> >>, << <<"Y">>, <<"k", "&">> >> >>
  /\ rowHandler.replaceVarMap[<<"R">>] = <<"f">>

\* hn(...h2(h1(line))...) for the first n of the handlers at the addresses
\* hs: the n-th handler on what the n-1 before it made of the line.
RECURSIVE Compose(_, _, _, _)
Compose(hs, n, line, order) ==
  IF n = 0 THEN line
  ELSE HandleLine(heap[hs[n]], Compose(hs, n - 1, line, order), order)

\* C21: ApplyExpandHandlers(line, h1, ..., hn) is hn(...h2(h1(line))...):
\* every handler once, in the given order, on the output of the one before
\* it, and the line itself when there is no handler.  So with the
\* ConstHandler before the RowHandler, a row placeholder the ConstHandler
\* inserted is substituted by the RowHandler, while what the RowHandler
\* inserted is not seen by the ConstHandler.
C21_LeftToRight ==
  (pc = "lib" /\ call # NoCall) =>
    /\ call.out = Compose(call.hs, Len(call.hs), call.line, call.order)
    /\ call.hs = <<>> => call.out = call.line
    /\ call.hs = <<1, 2>> =>
         call.out = RowHandleLine(heap[2], ConstHandleLine(heap[1], call.line),
                                  call.order)
    /\ ( /\ call.hs = <<1, 2>>
         /\ built.replaceFunc = "nil"
         /\ DOMAIN built.mapper = {<<"X">>} /\ built.mapper[<<"X">>] = <<"R">>
         /\ DOMAIN built.replaceVarMap = {<<"R">>}
         /\ GetKey(built.col, <<"f">>) = <<"X">>
         /\ call.line = <<"X", "R">> )
       => call.out = <<"X", "X">>

\* The ConstHandler maps X to R and the RowHandler maps R to a field
\* holding X; on the line X R the ConstHandler's R was substituted by the
\* RowHandler, and the X the RowHandler inserted stayed.
C21_Witness ==
  /\ pc = "lib" /\ call # NoCall
  /\ call.hs = <<1, 2>>
  /\ built.replaceFunc = "nil"
  /\ DOMAIN built.mapper = {<<"X">>} /\ built.mapper[<<"X">>] = <<"R">>
  /\ DOMAIN built.replaceVarMap = {<<"R">>}
  /\ GetKey(built.col, <<"f">>) = <<"X">>
  /\ call.line = <<"X", "R">>
  /\ call.out = <<"X", "X">>

\* C22: NewCSVReader with the header taken from the first row accepts rows
\* of any number of fields: whenever the text can be read and has a row,
\* there is no error, the first row is the header and every later row is
\* one entry; and in the Collection built from the reader the Column of a
\* row maps the first min(header length, row length) names, to the fields
\* at their positions, while every field of the row is there by position.
C22_RaggedRowsAccepted ==
  (built # NoCall /\ built.head /\ ~source.readErr /\ Len(source.records) > 0) =>
    /\ built.err = "nil"
    /\ built.reader # NilCSVReader
    /\ built.reader.HeadContent = source.records[1]
    /\ built.reader.ColumnsContent = Tail(source.records)
    /\ coll # NoCall =>
         /\ coll.err = "nil"
         /\ Len(coll.collection.Columns) = Len(source.records) - 1
         /\ \A i \in 1..(Len(source.records) - 1) :
              LET c == coll.collection.Columns[i]
                  h == source.records[1]
                  row == source.records[i + 1]
                  n == IF Len(h) < Len(row) THEN Len(h) ELSE Len(row)
              IN /\ DOMAIN c.Map = {h[j] : j \in 1..n}
                 /\ \A j \in 1..n :
                      (\A k \in (j + 1)..n : h[k] # h[j]) => GetKey(c, h[j]) = row[j]
                 /\ \A j \in 1..Len(row) : GetPos(c, j - 1) = row[j]
                 /\ GetPos(c, Len(row)) = NoColEntry

\* A text with a header of two different names, a first row of one field
\* and a second row of three fields was read and collected: the first
\* Column has no second name, the second has its third field at position 2.
C22_Witness ==
  /\ built # NoCall /\ built.head /\ built.err = "nil"
  /\ coll # NoCall /\ coll.err = "nil"
  /\ source.records = << << <<"a">>, <<"b">> >>,
                         << <<"1", "1">> >>,
                         << <<"2", "1">>, <<"2", "2">>, <<"2", "3">> >> >>
  /\ DOMAIN coll.collection.Columns[1].Map = {<<"a">>}
  /\ GetKey(coll.collection.Columns[1], <<"b">>) = NoColEntry
  /\ GetKey(coll.collection.Columns[2], <<"b">>) = <<"2", "2">>
  /\ GetPos(coll.collection.Columns[2], 2) = <<"2", "3">>

====
